---------------------------- MODULE Spec2Model ----------------------------
(***************************************************************************)
(* A model of the future/promise Core (src/src/detail/core.rs) and of the  *)
(* Promise and Future handles over it (src/src/promise.rs,                 *)
(* src/src/future.rs).                                                     *)
(*                                                                         *)
(* Two threads, the Promise thread "P" and the Future thread "F", run the  *)
(* operations of the code one shared-memory access at a time.  Under Spec  *)
(* an operation starts only when no other is running (the single-threaded  *)
(* use of the unit tests); under SpecPar the two threads interleave.       *)
(***************************************************************************)
EXTENDS Integers, Sequences, FiniteSets, TLC

(* ------------------------------- bounds -------------------------------- *)

\* operations started in a run of Spec (sequential use)
MaxOps == 4
\* operations started by each thread in a run of SpecPar
MaxParOps == 2
\* the values a Try carries are 1..MaxValue
MaxValue == 2

\* tasks submitted to the QueuedImmediateExecutor in a run
MaxTasks == 4

\* calls of try_lock / lock by each thread that uses the MicroSpinLock
MaxLockOps == 2

(* -------------------------------- data --------------------------------- *)

Threads == {"P", "F"}

\* enum State
States == {"Start", "OnlyResult", "OnlyCallback", "Armed", "Done"}

\* Option::None of the result slot
None == [contains |-> "None", val |-> 0, err |-> ""]

\* Try::new_value / Try::new_error
new_value(v) == [contains |-> "VALUE", val |-> v, err |-> ""]
new_error(e) == [contains |-> "ERROR", val |-> 0, err |-> e]

\* the Try values handed to set_result / set_try by the callers of the model
Tries == {new_value(v) : v \in 1..MaxValue} \cup {new_error("boom")}

\* Try::get_error
get_error(t) ==
  CASE t.contains = "VALUE" -> "Calling get_error on a succesful Try"
    [] t.contains = "ERROR" -> t.err
    [] OTHER -> "Using Uninitialized Try"

\* Try::value, as the outcome the caller of Future::value sees
TryValue(t) ==
  CASE t.contains = "VALUE" -> [kind |-> "ok", msg |-> "", val |-> t.val]
    [] t.contains = "ERROR" -> [kind |-> "err", msg |-> t.err, val |-> 0]
    [] OTHER -> [kind |-> "err", msg |-> "Using Uninitialized Try", val |-> 0]

\* Try::has_error
has_error(t) == t.contains = "ERROR"

\* the error detach_promise injects
BrokenPromise == new_error("Broken Promise")

\* the callbacks callers install; "noop" is the placeholder Box::new(|_| {})
Callbacks == {"f1", "f2"}
NoopCallback == "noop"

\* the closures Future::then and Future::then_val install on their own Core
ThenCallback == "then"
ThenValCallback == "then_val"

\* the user functions handed to then / then_val: |t| t.value().unwrap() + 1
\* and |t| t.value().unwrap() * 3 (then wraps the number in Future::new)
UserFns == {"inc", "triple"}
UserFn(g, t) == IF g = "inc" THEN t.val + 1 ELSE t.val * 3

\* executors: the null executor, one with a single priority, one with more
NullExecutor == "null"
SingleExecutor == "single"
MultiExecutor == "multi"

\* Executor::get_num_priorities
get_num_priorities(x) == IF x = MultiExecutor THEN 2 ELSE 1

\* MicroSpinLock's two values
FREE == FALSE
LOCKED == TRUE

\* outcomes of an operation
NoOut == [kind |-> "none", msg |-> "", val |-> 0]
Running == [kind |-> "running", msg |-> "", val |-> 0]
OkOut == [kind |-> "ok", msg |-> "", val |-> 0]
ErrOut(m) == [kind |-> "err", msg |-> m, val |-> 0]
\* Option<Arc<Fn>> returned by get_interrupt_handler: the handler, or
\* NoHandler for None
HandlerOut(h) == [kind |-> "ok", msg |-> h, val |-> 0]
PanicOut(m) == [kind |-> "panic", msg |-> m, val |-> 0]

(* ------------------------------- state --------------------------------- *)

VARIABLES
  core,      \* the fields of Core<T>
  lock,      \* the three MicroSpinLocks of the Core
  promise,   \* the Promise handle
  future,    \* the Future handle
  invoked,   \* the calls of user callbacks so far: <<[cb, arg]>>
  th,        \* per thread: position, call stack, locals, current operation
  lastT,     \* the thread that started the latest operation
  mode,      \* "seq" or "par"
  execs,     \* the executors a caller may bind
  handled,   \* the calls of interrupt handlers so far: <<[handler, err]>>
  chained,   \* the Promise, Core and Future that then / then_val created
  QUEUE,     \* the thread-local queue of QueuedImmediateExecutor
  running,   \* the calls of add and of tasks in progress, innermost last
  events,    \* the submissions, starts and ends of tasks so far
  spinlock   \* a MicroSpinLock and the threads that use it directly

vars ==
  <<core, lock, promise, future, invoked, th, lastT, mode, execs, handled,
    chained, QUEUE, running, events, spinlock>>

\* the variables of the Core, its handles and their callers
corevars ==
  <<core, lock, promise, future, invoked, th, lastT, mode, execs, handled,
    chained>>

\* what an operation sees when it starts
Snapshot == [core |-> core, promise |-> promise, future |-> future,
             invoked |-> invoked, handled |-> handled, chained |-> chained]


\* Option::None of the interrupt slot and of the interrupt-handler slot
NoInterrupt == "none"
NoHandler == "none"

\* the errors callers raise and the handlers they register
Interrupts == {"e1", "e2"}
Handlers == {"h1", "h2"}

NoArg ==
  [try |-> None, cb |-> NoopCallback, exec |-> NullExecutor,
   err |-> NoInterrupt, handler |-> NoHandler]

Locals0 ==
  [st |-> "Start", old |-> "Start", new |-> "Start", act |-> "noop",
   val |-> None, cb |-> NoopCallback, usret |-> FALSE, tta |-> FALSE,
   lk |-> "state", lkpc |-> "try_lock", exec |-> NullExecutor, prio |-> -1,
   ready |-> FALSE, misses |-> 0]


\* Core::new
CoreNew ==
  [state |-> "Start", result |-> None, callback |-> NoopCallback,
   attached |-> 2, active |-> TRUE, executor |-> NullExecutor,
   priority |-> -1, interrupt |-> NoInterrupt,
   interrupt_handler |-> NoHandler, interrupt_handler_set |-> FALSE]

\* Core::new_try
CoreNewTry(t) ==
  [state |-> "OnlyResult", result |-> t, callback |-> NoopCallback,
   attached |-> 1, active |-> TRUE, executor |-> NullExecutor,
   priority |-> -1, interrupt |-> NoInterrupt,
   interrupt_handler |-> NoHandler, interrupt_handler_set |-> FALSE]

\* what a run of detach_promise saw and did, kept after the operation ends:
\* the Core when detach_promise was entered, and whether it called set_result
NoObs == [entered |-> FALSE, core |-> CoreNew, injected |-> FALSE]

\* Promise::new: a live handle over a fresh Core
PromiseNew == [alive |-> TRUE, core_ptr |-> "core", retrieved |-> FALSE]
NoPromise == [alive |-> FALSE, core_ptr |-> "null", retrieved |-> FALSE]

\* Future::new_core_ptr
FutureOver(p) == [alive |-> TRUE, core_ptr |-> p, detached |-> FALSE]
NoFuture == [alive |-> FALSE, core_ptr |-> "null", detached |-> FALSE]

LocksFree == [l \in {"state", "interrupt", "executor"} |-> FREE]

\* before Future::then / then_val has run: no chained Promise and Future
NoChain ==
  [made |-> FALSE, kind |-> "none", g |-> "none", g_calls |-> 0,
   core |-> CoreNew, promise |-> NoPromise, future |-> NoFuture]

(* ------------------------- thread bookkeeping -------------------------- *)

Idle(t) == th[t].pc = "idle"
At(t, l) == th[t].pc = l

Set(t, r) == th' = [th EXCEPT ![t] = r]

\* call a subroutine at entry e, to come back at label ret
Call(r, e, ret) == [r EXCEPT !.pc = e, !.stack = <<ret>> \o @]

\* return from a subroutine; returning from the operation itself ends it
Return(r) ==
  IF Head(r.stack) = "done"
  THEN [r EXCEPT !.pc = "idle", !.stack = <<>>, !.l = Locals0,
                 !.out = IF @.kind = "running" THEN OkOut ELSE @]
  ELSE [r EXCEPT !.pc = Head(r.stack), !.stack = Tail(r.stack)]

\* panic!: the thread stops where it is
Panic(r, m) ==
  [r EXCEPT !.pc = "dead", !.stack = <<>>, !.l = Locals0, !.out = PanicOut(m)]

OpsStarted == th["P"].n + th["F"].n

\* an operation may start: the thread is idle and the run's budget allows it
MayStart(t) ==
  /\ Idle(t)
  /\ IF mode = "seq"
     THEN /\ OpsStarted < MaxOps
          /\ \A u \in Threads : th[u].pc \in {"idle", "dead"}
     ELSE th[t].n < MaxParOps

\* start operation op at label entry, with the labels of `stack` to run
\* after it
StartAt(t, op, arg, entry, stack, locals) ==
  /\ MayStart(t)
  /\ th' = [th EXCEPT ![t] =
              [pc |-> entry, stack |-> stack \o <<"done">>, op |-> op,
               arg |-> arg, n |-> @.n + 1, out |-> Running,
               pre |-> Snapshot, obs |-> NoObs, l |-> locals,
               held |-> @.held, sb |-> @.sb,
               late |-> @.late]]
  /\ lastT' = t

Start(t, op, arg, entry, locals) == StartAt(t, op, arg, entry, <<>>, locals)

(* --------------------------- MicroSpinLock ----------------------------- *)

\* a compare_exchange that stores whatever it finds
cas_blind(cur, compare, new_val) == [found |-> compare, left |-> new_val]

\* MicroSpinLock::cas, as (value found, value left)
cas(cur, compare, new_val) ==
  [found |-> cur, left |-> IF cur = compare THEN new_val ELSE cur]

\* the idiom `if !l.try_lock() { l.lock() }`: try_lock is one CAS; lock()
\* waits until it loads FREE and then tries the CAS again. The CAS is a
\* locked read-modify-write: the thread's buffered store is in memory first
lock_acquire(t) ==
  /\ At(t, "lock_acquire")
  /\ LET r == th[t]
         c == cas(lock[r.l.lk], FREE, LOCKED)
     IN  CASE r.l.lkpc \in {"try_lock", "cas"} ->
                /\ r.sb = <<>>
                /\ lock' = [lock EXCEPT ![r.l.lk] = c.left]
                /\ IF c.found = FREE
                   THEN Set(t, Return([r EXCEPT !.l.lkpc = "try_lock",
                                                !.held = @ \cup {r.l.lk}]))
                   ELSE Set(t, [r EXCEPT !.l.lkpc = "load"])
           [] OTHER ->
                /\ lock[r.l.lk] = FREE
                /\ Set(t, [r EXCEPT !.l.lkpc = "cas"])
                /\ UNCHANGED lock
  /\ UNCHANGED <<core, promise, future, invoked, handled, chained, lastT, mode, execs, QUEUE, running, events, spinlock>>

\* an unlock that leaves the lock taken
unlock_kept(r, l) == [lk |-> lock, r |-> r]

\* MicroSpinLock::unlock: the assertion, then the store; the thread record
\* keeps the locks it has acquired and not released in `held`
unlock(r, l) ==
  IF lock[l] = LOCKED
  THEN [lk |-> [lock EXCEPT ![l] = FREE], r |-> [r EXCEPT !.held = @ \ {l}]]
  ELSE [lk |-> lock, r |-> Panic(r, "assertion failed: lock == LOCKED")]

(* -------------------------------- FSM ---------------------------------- *)

\* FSM::update_state, entered with l.old, l.new, l.act set
update_state(t) ==
  /\ At(t, "update_state")
  /\ Set(t, Call([th[t] EXCEPT !.l.lk = "state"], "lock_acquire",
                 "update_state_check"))
  /\ UNCHANGED <<core, lock, promise, future, invoked, handled, chained, lastT, mode, execs, QUEUE, running, events, spinlock>>

\* update_state accepting only the transitions out of Start
update_state_from_start(cur, old) == cur = old /\ old = "Start"

\* update_state without the comparison of the current state with old_state
update_state_unchecked(cur, old) == TRUE

\* the state the guard of update_state compares with old_state
update_state_matches(cur, old) == cur = old

update_state_check(t) ==
  /\ At(t, "update_state_check")
  /\ LET r == th[t] IN
     IF update_state_matches(core.state, r.l.old)
     THEN /\ Set(t, [r EXCEPT !.pc = "update_state_action"])
          /\ UNCHANGED lock
     ELSE LET u == unlock([r EXCEPT !.l.usret = FALSE], "state") IN
          /\ lock' = u.lk
          /\ Set(t, IF u.r.pc = "dead" THEN u.r ELSE Return(u.r))
  /\ UNCHANGED <<core, promise, future, invoked, handled, chained, lastT, mode, execs, QUEUE, running, events, spinlock>>

\* action(): the closures set_result_, set_callback_ swap the slot with the
\* caller's cell; maybe_callback passes an empty closure
update_state_action(t) ==
  /\ At(t, "update_state_action")
  /\ LET r == th[t] IN
     CASE r.l.act = "set_result_" ->
            /\ core' = [core EXCEPT !.result = r.l.val]
            /\ Set(t, [r EXCEPT !.pc = "update_state_store",
                                !.l.val = core.result])
       [] r.l.act = "set_callback_" ->
            /\ core' = [core EXCEPT !.callback = r.l.cb]
            /\ Set(t, [r EXCEPT !.pc = "update_state_store",
                                !.l.cb = core.callback])
       [] OTHER ->
            /\ Set(t, [r EXCEPT !.pc = "update_state_store"])
            /\ UNCHANGED core
  /\ UNCHANGED <<lock, promise, future, invoked, handled, chained, lastT, mode, execs, QUEUE, running, events, spinlock>>

update_state_store(t) ==
  /\ At(t, "update_state_store")
  /\ core' = [core EXCEPT !.state = th[t].l.new]
  /\ Set(t, [th[t] EXCEPT !.pc = "update_state_unlock"])
  /\ UNCHANGED <<lock, promise, future, invoked, handled, chained, lastT, mode, execs, QUEUE, running, events, spinlock>>

update_state_unlock(t) ==
  /\ At(t, "update_state_unlock")
  /\ LET u == unlock([th[t] EXCEPT !.l.usret = TRUE], "state") IN
     /\ lock' = u.lk
     /\ Set(t, IF u.r.pc = "dead" THEN u.r ELSE Return(u.r))
  /\ UNCHANGED <<core, promise, future, invoked, handled, chained, lastT, mode, execs, QUEUE, running, events, spinlock>>

(* ---------------------- set_result / set_callback ---------------------- *)

\* set_result accepting a second result in OnlyResult
set_result_target_overwrite(st) ==
  CASE st \in {"Start", "OnlyResult"} -> "OnlyResult"
    [] st = "OnlyCallback" -> "Armed"
    [] OTHER -> "panic"

\* the match of set_result on the state it observed: the state it moves to,
\* or "panic" for the three arms that are logic errors
set_result_target(st) ==
  CASE st = "Start" -> "OnlyResult"
    [] st = "OnlyCallback" -> "Armed"
    [] OTHER -> "panic"

\* Core::set_result, entered with the Try in l.val: one pass of the loop
set_result(t) ==
  /\ At(t, "set_result")
  /\ LET r == th[t]
         st == core.state
         to == set_result_target(st)
     IN  IF to = "panic"
         THEN Set(t, Panic(r, "logic error: set_result called twice"))
         ELSE Set(t, Call([r EXCEPT !.l.st = st, !.l.old = st, !.l.new = to,
                                    !.l.act = "set_result_"],
                          "update_state", "set_result_ret"))
  /\ UNCHANGED <<core, lock, promise, future, invoked, handled, chained, lastT, mode, execs, QUEUE, running, events, spinlock>>

\* the flag never set by the arm that targets Armed
transition_to_armed_unset(before, target) == before

\* the flag transition_to_armed after a pass of the loop: the arm that
\* targets Armed sets it
transition_to_armed(before, target) == before \/ target = "Armed"

\* the failed attempts of the loop `while !done`, after one more: while the
\* loop runs, l.misses counts its passes in which update_state returned false
retry_misses(m) == m + 1

\* after update_state: `done = ...; transition_to_armed = true` in the arm
\* that targets Armed, then the loop test and the call of maybe_callback
set_result_ret(t) ==
  /\ At(t, "set_result_ret")
  /\ LET r == th[t]
         tta == transition_to_armed(r.l.tta, r.l.new)
         r1 == [r EXCEPT !.l.tta = tta, !.l.misses = 0]
     IN  IF ~r.l.usret
         THEN Set(t, [r1 EXCEPT !.pc = "set_result",
                                !.l.misses = retry_misses(r.l.misses)])
         ELSE IF tta
              THEN Set(t, Call(r1, "maybe_callback", "return"))
              ELSE Set(t, Return(r1))
  /\ UNCHANGED <<core, lock, promise, future, invoked, handled, chained, lastT, mode, execs, QUEUE, running, events, spinlock>>

\* a set_callback that a completed Core accepts, arming it again
set_callback_target_rearm(st) ==
  CASE st = "Start" -> "OnlyCallback"
    [] st \in {"OnlyResult", "Done"} -> "Armed"
    [] OTHER -> "panic"

\* the match of set_callback on the state it observed
set_callback_target(st) ==
  CASE st = "Start" -> "OnlyCallback"
    [] st = "OnlyResult" -> "Armed"
    [] OTHER -> "panic"

\* usize subtraction of 1: 0 wraps to usize::MAX, written -1
fetch_sub_1(a) == a - 1

\* the test of detach_promise inverted
detach_promise_injects_inverted(result) == result /= None

\* the test of detach_promise on the result slot
detach_promise_injects(result) == result = None

\* the match of has_result on the state
has_result_of(st) == st \in {"OnlyResult", "Armed", "Done"}

(* The chained Core that then / then_val create is reached by one thread *)
(* at a time (the closure runs inside do_callback of the source Core, the  *)
(* callers' operations run one after another), so the functions of         *)
(* core.rs and promise.rs are applied to it from entry to return.          *)

\* Core::set_result on the chained Core: the slot and the state
chain_set_result(c, t) ==
  [c EXCEPT !.result = t, !.state = set_result_target(c.state)]

\* a set_try that loses the Try
chain_set_try_lost(c, t) == c

\* Promise::set_try on the chained Core: error_if_fulfilled returns the
\* error "Promise already satisfied", which the closures drop; else
\* set_result
chain_set_try(c, t) ==
  IF has_result_of(c.state) THEN c ELSE chain_set_result(c, t)

\* Promise::set_error: set_result(Try::new_error(try.get_error()))
chain_set_error(c, t) == chain_set_try(c, new_error(get_error(t)))

\* the drop of the chained Promise, whose Future was retrieved, at the end
\* of the closure that owns it: detach_promise, the pointer nulled
chain_promise_drop(ch) ==
  LET c == ch.core
      c1 == IF detach_promise_injects(c.result)
            THEN chain_set_result(c, BrokenPromise)
            ELSE c
  IN  [ch EXCEPT !.core = [c1 EXCEPT !.attached = fetch_sub_1(@)],
                 !.promise = [@ EXCEPT !.alive = FALSE, !.core_ptr = "null"]]

\* the Try that the callback installed by `then` on the Future f2 returned
\* by the user function receives: f2 is Future::new(..), its Core is built
\* by new_try and dispatches inside f2.set_callback
then_inner_try(v) == CoreNewTry(new_value(v)).result

\* the closure of Future::then_val, called with the source's Try
then_val_closure(ch, try) ==
  IF has_error(try)
  THEN chain_promise_drop([ch EXCEPT !.core = chain_set_error(@, try)])
  ELSE chain_promise_drop(
         [ch EXCEPT !.g_calls = @ + 1,
                    !.core = chain_set_try(@, new_value(UserFn(ch.g, try)))])

\* the closure of Future::then, called with the source's Try
then_closure(ch, try) ==
  IF has_error(try)
  THEN chain_promise_drop([ch EXCEPT !.core = chain_set_error(@, try)])
  ELSE chain_promise_drop(
         [ch EXCEPT !.g_calls = @ + 1,
                    !.core = chain_set_try(@,
                               then_inner_try(UserFn(ch.g, try)))])

\* callback(try): the closures of then / then_val act on the chained
\* Promise; the callers' own callbacks touch nothing of the model
run_callback(cb, try) ==
  CASE cb = ThenValCallback -> then_val_closure(chained, try)
    [] cb = ThenCallback -> then_closure(chained, try)
    [] OTHER -> chained

\* a closure dropped without having been called: the closures of then /
\* then_val own the chained Promise, the callers' own callbacks own nothing
drop_callback(ch, cb) ==
  IF cb \in {ThenCallback, ThenValCallback}
  THEN chain_promise_drop(ch)
  ELSE ch

\* then / then_val unwinding: the chained Future they hold is dropped
\* (detach_future), the pointer nulled
then_unwind(ch) ==
  IF ch.made /\ ch.future.alive
  THEN [ch EXCEPT !.core.attached = fetch_sub_1(@),
                  !.future = [@ EXCEPT !.alive = FALSE, !.core_ptr = "null"]]
  ELSE ch

\* Core::set_callback, entered with the callback in l.cb; the panic unwinds
\* through the local that still owns the closure, and through the caller
set_callback(t) ==
  /\ At(t, "set_callback")
  /\ LET r == th[t]
         st == core.state
         to == set_callback_target(st)
     IN  IF to = "panic"
         THEN /\ Set(t, Panic(r, "logic error: set_callback called twice"))
              /\ chained' = then_unwind(drop_callback(chained, r.l.cb))
         ELSE /\ Set(t, Call([r EXCEPT !.l.st = st, !.l.old = st,
                                       !.l.new = to,
                                       !.l.act = "set_callback_"],
                             "update_state", "set_callback_ret"))
              /\ UNCHANGED chained
  /\ UNCHANGED <<core, lock, promise, future, invoked, handled, lastT, mode, execs, QUEUE, running, events, spinlock>>

set_callback_ret(t) ==
  /\ At(t, "set_callback_ret")
  /\ LET r == th[t]
         tta == transition_to_armed(r.l.tta, r.l.new)
         r1 == [r EXCEPT !.l.tta = tta, !.l.misses = 0]
     IN  IF ~r.l.usret
         THEN Set(t, [r1 EXCEPT !.pc = "set_callback",
                                !.l.misses = retry_misses(r.l.misses)])
         ELSE IF tta
              THEN Set(t, Call(r1, "maybe_callback", "return"))
              ELSE Set(t, Return(r1))
  /\ UNCHANGED <<core, lock, promise, future, invoked, handled, chained, lastT, mode, execs, QUEUE, running, events, spinlock>>

\* the end of a function whose last statement was a call
return(t) ==
  /\ At(t, "return")
  /\ Set(t, Return(th[t]))
  /\ UNCHANGED <<core, lock, promise, future, invoked, handled, chained, lastT, mode, execs, QUEUE, running, events, spinlock>>

(* --------------------- maybe_callback / do_callback --------------------- *)

\* maybe_callback: the load of the state; only Armed goes on. `late` records
\* that the load ran ahead of the thread's own store of the active flag
maybe_callback(t) ==
  /\ At(t, "maybe_callback")
  /\ LET r == [th[t] EXCEPT !.late = @ \/ th[t].sb /= <<>>] IN
       IF core.state = "Armed"
       THEN Set(t, [r EXCEPT !.pc = "maybe_callback_active"])
       ELSE Set(t, Return(r))
  /\ UNCHANGED <<core, lock, promise, future, invoked, handled, chained, lastT, mode, execs, QUEUE, running, events, spinlock>>

\* maybe_callback not looking at the active flag
maybe_callback_fires_always(active) == TRUE

\* whether maybe_callback, having seen Armed, attempts Armed -> Done
maybe_callback_fires(active) == active

\* the active flag as thread t loads it: its own latest store if one is
\* still on its way to memory, the value in memory otherwise
active_load(t) ==
  IF th[t].sb = <<>> THEN core.active ELSE th[t].sb[Len(th[t].sb)]

\* maybe_callback: the load of the active flag
maybe_callback_active(t) ==
  /\ At(t, "maybe_callback_active")
  /\ IF maybe_callback_fires(active_load(t))
     THEN Set(t, Call([th[t] EXCEPT !.l.old = "Armed", !.l.new = "Done",
                                    !.l.act = "noop"],
                      "update_state", "update_state2_ret"))
     ELSE Set(t, Return(th[t]))
  /\ UNCHANGED <<core, lock, promise, future, invoked, handled, chained, lastT, mode, execs, QUEUE, running, events, spinlock>>

\* update_state2: the unprotected action runs if the transition happened
update_state2_ret(t) ==
  /\ At(t, "update_state2_ret")
  /\ IF th[t].l.usret
     THEN Set(t, Call([th[t] EXCEPT !.l.lk = "executor"], "lock_acquire",
                      "do_callback_read"))
     ELSE Set(t, Return(th[t]))
  /\ UNCHANGED <<core, lock, promise, future, invoked, handled, chained, lastT, mode, execs, QUEUE, running, events, spinlock>>

\* do_callback: the executor and priority read under the executor lock,
\* and the unlock
do_callback_read(t) ==
  /\ At(t, "do_callback_read")
  /\ LET u == unlock([th[t] EXCEPT !.l.exec = core.executor,
                                   !.l.prio = core.priority], "executor")
     IN  /\ lock' = u.lk
         /\ Set(t, IF u.r.pc = "dead" THEN u.r
                   ELSE [u.r EXCEPT !.pc = "do_callback_attach"])
  /\ UNCHANGED <<core, promise, future, invoked, handled, chained, lastT, mode, execs, QUEUE, running, events, spinlock>>

\* which branch of do_callback runs: "call" takes the callback and the
\* result and calls the callback under the scope guard, "skip" is the empty
\* branch of an executor with more than one priority
do_callback_branch(executor) ==
  IF executor /= NullExecutor
  THEN IF get_num_priorities(executor) = 1 THEN "call" ELSE "skip"
  ELSE "call"

\* an increment by two
fetch_add_2(a) == a + 2

\* self.attached.fetch_add(1, ..): the value left in the counter
fetch_add_1(a) == a + 1

\* do_callback: attached.fetch_add(1), then the branch on the executor
do_callback_attach(t) ==
  /\ At(t, "do_callback_attach")
  /\ core' = [core EXCEPT !.attached = fetch_add_1(@)]
  /\ IF do_callback_branch(th[t].l.exec) = "call"
     THEN Set(t, [th[t] EXCEPT !.pc = "do_callback_take"])
     ELSE Set(t, Return(th[t]))
  /\ UNCHANGED <<lock, promise, future, invoked, handled, chained, lastT, mode, execs, QUEUE, running, events, spinlock>>

\* do_callback: mem::replace of the callback slot by the placeholder
do_callback_take(t) ==
  /\ At(t, "do_callback_take")
  /\ core' = [core EXCEPT !.callback = NoopCallback]
  /\ Set(t, [th[t] EXCEPT !.pc = "do_callback_call", !.l.cb = core.callback])
  /\ UNCHANGED <<lock, promise, future, invoked, handled, chained, lastT, mode, execs, QUEUE, running, events, spinlock>>

\* do_callback: `if let Some(try) = (*result).take() { callback(try) }`,
\* then the scope guard's detach_one
do_callback_call(t) ==
  /\ At(t, "do_callback_call")
  /\ core' = [core EXCEPT !.result = None]
  /\ invoked' = IF core.result /= None
                THEN Append(invoked, [cb |-> th[t].l.cb, arg |-> core.result])
                ELSE invoked
  /\ chained' = IF core.result /= None
                THEN run_callback(th[t].l.cb, core.result)
                ELSE drop_callback(chained, th[t].l.cb)
  /\ Set(t, Call(th[t], "detach_one", "return"))
  /\ UNCHANGED <<lock, promise, future, handled, lastT, mode, execs, QUEUE, running, events, spinlock>>

(* ------------------------------ detach --------------------------------- *)

\* Core::detach_one: the fetch_sub and the two assertions (usize: the first
\* cannot fail, the second fails once the counter has wrapped; a build that
\* checks overflow panics in the subtraction instead); mem::drop of the
\* reference frees nothing
detach_one(t) ==
  /\ At(t, "detach_one")
  /\ LET a == fetch_sub_1(core.attached) IN
     /\ core' = [core EXCEPT !.attached = a]
     /\ IF a >= 0 /\ a <= 2
        THEN Set(t, Return(th[t]))
        ELSE \E m \in {"assertion failed: attached <= 2",
                       "attempt to subtract with overflow"} :
               Set(t, Panic(th[t], m))
  /\ UNCHANGED <<lock, promise, future, invoked, handled, chained, lastT, mode, execs, QUEUE, running, events, spinlock>>

\* Core::activate: active.store(true, Release), then maybe_callback. Nothing
\* orders the Release store before the Acquire load of the state that
\* follows it, so the store may reach memory after that load: it is put in
\* the thread's store buffer, which active_drain empties
activate(t) ==
  /\ At(t, "activate")
  /\ Set(t, [th[t] EXCEPT !.pc = "maybe_callback", !.sb = Append(@, TRUE)])
  /\ UNCHANGED <<core, lock, promise, future, invoked, handled, chained, lastT, mode, execs, QUEUE, running, events, spinlock>>

\* the buffered store of Core::activate reaches memory
active_drain(t) ==
  /\ th[t].sb /= <<>>
  /\ core' = [core EXCEPT !.active = Head(th[t].sb)]
  /\ Set(t, [th[t] EXCEPT !.sb = Tail(@)])
  /\ UNCHANGED <<lock, promise, future, invoked, handled, chained, lastT, mode, execs, QUEUE, running, events, spinlock>>

\* Core::activate returns to its caller; by then its store is in memory
activate_ret(t) ==
  /\ At(t, "activate_ret")
  /\ th[t].sb = <<>>
  /\ Set(t, Return(th[t]))
  /\ UNCHANGED <<core, lock, promise, future, invoked, handled, chained, lastT, mode, execs, QUEUE, running, events, spinlock>>

\* Core::deactivate
deactivate(t) ==
  /\ At(t, "deactivate")
  /\ core' = [core EXCEPT !.active = FALSE]
  /\ Set(t, Return(th[t]))
  /\ UNCHANGED <<lock, promise, future, invoked, handled, chained, lastT, mode, execs, QUEUE, running, events, spinlock>>

\* detach_future without the call of activate
detach_future_no_activate(t) ==
  /\ At(t, "detach_future")
  /\ future' = [future EXCEPT !.detached = TRUE]
  /\ Set(t, [th[t] EXCEPT !.pc = "detach_one"])
  /\ UNCHANGED <<core, lock, promise, invoked, handled, chained, lastT, mode, execs, QUEUE, running, events, spinlock>>

\* Core::detach_future: activate(), then detach_one()
detach_future(t) ==
  /\ At(t, "detach_future")
  /\ future' = [future EXCEPT !.detached = TRUE]
  /\ Set(t, Call(Call(th[t], "activate_ret", "detach_one"),
                  "activate", "activate_ret"))
  /\ UNCHANGED <<core, lock, promise, invoked, handled, chained, lastT, mode, execs, QUEUE, running, events, spinlock>>

\* Core::detach_promise: set_result(Broken Promise) if the slot is empty,
\* then detach_one()
detach_promise(t) ==
  /\ At(t, "detach_promise")
  /\ LET r == th[t]
         inj == detach_promise_injects(core.result)
         r1 == [r EXCEPT !.obs = [entered |-> TRUE, core |-> core,
                                  injected |-> inj]]
     IN  IF inj
         THEN Set(t, Call([r1 EXCEPT !.l.val = BrokenPromise,
                                     !.l.tta = FALSE],
                          "set_result", "detach_one"))
         ELSE Set(t, [r1 EXCEPT !.pc = "detach_one"])
  /\ UNCHANGED <<core, lock, promise, future, invoked, handled, chained, lastT, mode, execs, QUEUE, running, events, spinlock>>

(* ------------------------------ has_result ------------------------------ *)

\* Core::has_result (and ready): the load of the state
has_result(t) ==
  /\ At(t, "has_result")
  /\ IF has_result_of(core.state)
     THEN Set(t, [th[t] EXCEPT !.pc = "has_result_assert"])
     ELSE Set(t, Return([th[t] EXCEPT !.l.ready = FALSE]))
  /\ UNCHANGED <<core, lock, promise, future, invoked, handled, chained, lastT, mode, execs, QUEUE, running, events, spinlock>>

\* Core::has_result: assert!((*self.result.get()).is_some())
has_result_assert(t) ==
  /\ At(t, "has_result_assert")
  /\ IF core.result /= None
     THEN Set(t, Return([th[t] EXCEPT !.l.ready = TRUE]))
     ELSE Set(t, Panic(th[t],
                 "assertion failed: (*self.result.get()).is_some()"))
  /\ UNCHANGED <<core, lock, promise, future, invoked, handled, chained, lastT, mode, execs, QUEUE, running, events, spinlock>>

(* ------------------------------- Promise ------------------------------- *)

\* Promise::error_if_fulfilled: the null test, then ready()
error_if_fulfilled(t) ==
  /\ At(t, "error_if_fulfilled")
  /\ IF promise.core_ptr = "null"
     THEN Set(t, Return([th[t] EXCEPT !.out = ErrOut("No state")]))
     ELSE Set(t, Call(th[t], "has_result", "set_try"))
  /\ UNCHANGED <<core, lock, promise, future, invoked, handled, chained, lastT, mode, execs, QUEUE, running, events, spinlock>>

\* Promise::set_try / set_error after error_if_fulfilled: the error, or
\* set_result of the Try
set_try(t) ==
  /\ At(t, "set_try")
  /\ IF th[t].l.ready
     THEN Set(t, Return([th[t] EXCEPT
                           !.out = ErrOut("Promise already satisfied")]))
     ELSE Set(t, [th[t] EXCEPT !.pc = "set_result", !.l.tta = FALSE])
  /\ UNCHANGED <<core, lock, promise, future, invoked, handled, chained, lastT, mode, execs, QUEUE, running, events, spinlock>>

\* error_if_retrieved never reporting the error
error_if_retrieved_never(retrieved) == FALSE

\* Promise::error_if_retrieved
error_if_retrieved(retrieved) == retrieved

\* Promise::get_future
get_future(t) ==
  /\ At(t, "get_future")
  /\ IF error_if_retrieved(promise.retrieved)
     THEN /\ Set(t, Return([th[t] EXCEPT
                              !.out = ErrOut("Promise already retrieved")]))
          /\ UNCHANGED <<promise, future>>
     ELSE /\ promise' = [promise EXCEPT !.retrieved = TRUE]
          /\ future' = FutureOver(promise.core_ptr)
          /\ Set(t, Return(th[t]))
  /\ UNCHANGED <<core, lock, invoked, handled, chained, lastT, mode, execs, QUEUE, running, events, spinlock>>

\* Promise::detach, run by drop
promise_detach(t) ==
  /\ At(t, "promise_detach")
  /\ LET r == th[t] IN
     IF promise.core_ptr /= "null"
     THEN IF ~promise.retrieved
          THEN Set(t, [r EXCEPT !.pc = "detach_future",
                                !.stack = <<"detach_promise",
                                            "promise_detach_null">> \o @])
          ELSE Set(t, Call(r, "detach_promise", "promise_detach_null"))
     ELSE Set(t, Return(r))
  /\ UNCHANGED <<core, lock, promise, future, invoked, handled, chained, lastT, mode, execs, QUEUE, running, events, spinlock>>

\* Promise::detach: self.core_ptr = ptr::null_mut()
promise_detach_null(t) ==
  /\ At(t, "promise_detach_null")
  /\ promise' = [promise EXCEPT !.core_ptr = "null"]
  /\ Set(t, Return(th[t]))
  /\ UNCHANGED <<core, lock, future, invoked, handled, chained, lastT, mode, execs, QUEUE, running, events, spinlock>>

(* ------------------------------- Future -------------------------------- *)

\* Future::value: error_if_invalid, then get_try, whose first step is ready()
value(t) ==
  /\ At(t, "value")
  /\ IF future.core_ptr = "null"
     THEN Set(t, Return([th[t] EXCEPT !.out = ErrOut("No state")]))
     ELSE Set(t, Call(th[t], "has_result", "get_try"))
  /\ UNCHANGED <<core, lock, promise, future, invoked, handled, chained, lastT, mode, execs, QUEUE, running, events, spinlock>>

\* what get_try does once ready() has answered: the taken Try's value as
\* the outcome of Future::value, or a panic
get_try_outcome(ready, result) ==
  IF ready
  THEN IF result /= None
       THEN TryValue(result)
       ELSE PanicOut("called Option::unwrap() on a None value")
  ELSE PanicOut("Future not ready")

\* Core::get_try after ready(): take().unwrap(), or panic!
get_try(t) ==
  /\ At(t, "get_try")
  /\ LET o == get_try_outcome(th[t].l.ready, core.result) IN
     IF o.kind = "panic"
     THEN /\ Set(t, Panic(th[t], o.msg))
          /\ UNCHANGED core
     ELSE /\ core' = [core EXCEPT !.result = None]
          /\ Set(t, Return([th[t] EXCEPT !.out = o]))
  /\ UNCHANGED <<lock, promise, future, invoked, handled, chained, lastT, mode, execs, QUEUE, running, events, spinlock>>

\* Future::detach, run by drop: the pointer is nulled after detach_future
future_detach_null(t) ==
  /\ At(t, "future_detach_null")
  /\ future' = [future EXCEPT !.core_ptr = "null"]
  /\ Set(t, Return(th[t]))
  /\ UNCHANGED <<core, lock, promise, invoked, handled, chained, lastT, mode, execs, QUEUE, running, events, spinlock>>

\* Core::set_executor with the executor lock held: the two writes and the
\* unlock (Future::set_executor passes priority -1)
set_executor(t) ==
  /\ At(t, "set_executor")
  /\ LET u == unlock(th[t], "executor") IN
     /\ lock' = u.lk
     /\ core' = [core EXCEPT !.executor = th[t].arg.exec, !.priority = -1]
     /\ Set(t, IF u.r.pc = "dead" THEN u.r ELSE Return(u.r))
  /\ UNCHANGED <<promise, future, invoked, handled, chained, lastT, mode, execs, QUEUE, running, events, spinlock>>

(* ------------------------ the callers' operations ----------------------- *)

(* ------------------------------ interrupts ----------------------------- *)

\* an interrupt slot that always reads as empty
has_interrupt_never(i) == FALSE

\* (*self.interrupt.get()).is_some()
has_interrupt(i) == i /= NoInterrupt

\* a handler slot that always reads as empty
has_handler_never(h) == FALSE

\* (*self.interrupt_handler.get()).is_some()
has_handler(h) == h /= NoHandler

\* a test of the interrupt slot in set_interrupt_handler that always fails
handler_sees_interrupt_never(i) == FALSE

\* the test of the interrupt slot in set_interrupt_handler
handler_sees_interrupt(i) == has_interrupt(i)

\* Core::raise with the interrupt lock held: the first operand of
\* `interrupt.is_none() && !self.has_result()`; has_result is evaluated only
\* when no interrupt is recorded
raise(t) ==
  /\ At(t, "raise")
  /\ IF ~has_interrupt(core.interrupt)
     THEN Set(t, Call(th[t], "has_result", "raise_store"))
     ELSE Set(t, [th[t] EXCEPT !.pc = "interrupt_unlock"])
  /\ UNCHANGED <<core, lock, promise, future, invoked, handled, chained, lastT, mode, execs, QUEUE, running, events, spinlock>>

\* Core::raise after has_result(): `*self.interrupt.get() = Some(err)`
raise_store(t) ==
  /\ At(t, "raise_store")
  /\ IF ~th[t].l.ready
     THEN /\ core' = [core EXCEPT !.interrupt = th[t].arg.err]
          /\ Set(t, [th[t] EXCEPT !.pc = "raise_handler"])
     ELSE /\ Set(t, [th[t] EXCEPT !.pc = "interrupt_unlock"])
          /\ UNCHANGED core
  /\ UNCHANGED <<lock, promise, future, invoked, handled, chained, lastT, mode, execs, QUEUE, running, events, spinlock>>

\* Core::raise: the stored handler, if there is one, is called with the
\* recorded interrupt
raise_handler(t) ==
  /\ At(t, "raise_handler")
  /\ handled' = IF has_handler(core.interrupt_handler)
                THEN Append(handled, [handler |-> core.interrupt_handler,
                                      err |-> core.interrupt])
                ELSE handled
  /\ Set(t, [th[t] EXCEPT !.pc = "interrupt_unlock"])
  /\ UNCHANGED <<core, lock, promise, future, invoked, chained, lastT, mode, execs, QUEUE, running, events, spinlock>>

\* Core::set_interrupt_handler_nolock: the flag, then the slot
set_interrupt_handler_nolock(c, handler) ==
  [c EXCEPT !.interrupt_handler_set = TRUE, !.interrupt_handler = handler]

\* Core::set_interrupt_handler with the interrupt lock held, after
\* has_result(): the handler is called with a recorded interrupt, or stored
set_interrupt_handler(t) ==
  /\ At(t, "set_interrupt_handler")
  /\ IF ~th[t].l.ready
     THEN IF handler_sees_interrupt(core.interrupt)
          THEN /\ handled' = Append(handled, [handler |-> th[t].arg.handler,
                                              err |-> core.interrupt])
               /\ UNCHANGED core
          ELSE /\ core' = set_interrupt_handler_nolock(core,
                                                       th[t].arg.handler)
               /\ UNCHANGED handled
     ELSE UNCHANGED <<core, handled>>
  /\ Set(t, [th[t] EXCEPT !.pc = "interrupt_unlock"])
  /\ UNCHANGED <<lock, promise, future, invoked, chained, lastT, mode, execs, QUEUE, running, events, spinlock>>

\* self.interrupt_lock.unlock() at the end of raise and of
\* set_interrupt_handler
interrupt_unlock(t) ==
  /\ At(t, "interrupt_unlock")
  /\ LET u == unlock(th[t], "interrupt") IN
     /\ lock' = u.lk
     /\ Set(t, IF u.r.pc = "dead" THEN u.r ELSE Return(u.r))
  /\ UNCHANGED <<core, promise, future, invoked, handled, chained, lastT, mode, execs, QUEUE, running, events, spinlock>>

\* Core::get_interrupt_handler: the load of the flag; None without taking
\* the lock when no handler was ever stored
get_interrupt_handler(t) ==
  /\ At(t, "get_interrupt_handler")
  /\ IF ~core.interrupt_handler_set
     THEN Set(t, Return([th[t] EXCEPT !.out = HandlerOut(NoHandler)]))
     ELSE Set(t, Call([th[t] EXCEPT !.l.lk = "interrupt"], "lock_acquire",
                      "get_interrupt_handler_read"))
  /\ UNCHANGED <<core, lock, promise, future, invoked, handled, chained, lastT, mode, execs, QUEUE, running, events, spinlock>>

\* Core::get_interrupt_handler with the lock held: the clone of the slot,
\* the unlock, the return
get_interrupt_handler_read(t) ==
  /\ At(t, "get_interrupt_handler_read")
  /\ LET u == unlock([th[t] EXCEPT !.out = HandlerOut(core.interrupt_handler)],
                     "interrupt")
     IN  /\ lock' = u.lk
         /\ Set(t, IF u.r.pc = "dead" THEN u.r ELSE Return(u.r))
  /\ UNCHANGED <<core, promise, future, invoked, handled, chained, lastT, mode, execs, QUEUE, running, events, spinlock>>

\* Future::value on the chained Future: error_if_invalid, ready() with the
\* assertion of has_result, then get_try
chained_value(t) ==
  /\ At(t, "chained_value")
  /\ LET c == chained.core
         ready == has_result_of(c.state)
         o == get_try_outcome(ready, c.result)
     IN  IF chained.future.core_ptr = "null"
         THEN /\ Set(t, Return([th[t] EXCEPT !.out = ErrOut("No state")]))
              /\ UNCHANGED chained
         ELSE IF ready /\ c.result = None
         THEN /\ Set(t, Panic(th[t],
                        "assertion failed: (*self.result.get()).is_some()"))
              /\ UNCHANGED chained
         ELSE IF o.kind = "panic"
         THEN /\ Set(t, Panic(th[t], o.msg))
              /\ UNCHANGED chained
         ELSE /\ chained' = [chained EXCEPT !.core.result = None]
              /\ Set(t, Return([th[t] EXCEPT !.out = o]))
  /\ UNCHANGED <<core, lock, promise, future, invoked, handled, lastT, mode, execs, QUEUE, running, events, spinlock>>

\* core.set_result(t), called on the Core directly from the Promise thread
Core_set_result ==
  \E x \in Tries :
    /\ promise.alive
    /\ Start("P", "Core::set_result", [NoArg EXCEPT !.try = x], "set_result",
             [Locals0 EXCEPT !.val = x])
    /\ UNCHANGED <<core, lock, promise, future, invoked, handled, chained, mode, execs, QUEUE, running, events, spinlock>>

\* core.set_callback(f), called from the Future thread
Core_set_callback ==
  \E f \in Callbacks :
    /\ ~future.detached
    /\ Start("F", "Core::set_callback", [NoArg EXCEPT !.cb = f],
             "set_callback", [Locals0 EXCEPT !.cb = f])
    /\ UNCHANGED <<core, lock, promise, future, invoked, handled, chained, mode, execs, QUEUE, running, events, spinlock>>

Core_activate ==
  /\ ~future.detached
  /\ StartAt("F", "Core::activate", NoArg, "activate", <<"activate_ret">>,
             Locals0)
  /\ UNCHANGED <<core, lock, promise, future, invoked, handled, chained, mode, execs, QUEUE, running, events, spinlock>>

Core_deactivate ==
  /\ ~future.detached
  /\ Start("F", "Core::deactivate", NoArg, "deactivate", Locals0)
  /\ UNCHANGED <<core, lock, promise, future, invoked, handled, chained, mode, execs, QUEUE, running, events, spinlock>>

\* p.set_try(t)
Promise_set_try ==
  \E x \in Tries :
    /\ promise.alive
    /\ Start("P", "Promise::set_try", [NoArg EXCEPT !.try = x],
             "error_if_fulfilled", [Locals0 EXCEPT !.val = x])
    /\ UNCHANGED <<core, lock, promise, future, invoked, handled, chained, mode, execs, QUEUE, running, events, spinlock>>

\* p.set_error(t): the result is Try::new_error(t.get_error())
Promise_set_error ==
  \E x \in Tries :
    /\ promise.alive
    /\ Start("P", "Promise::set_error", [NoArg EXCEPT !.try = x],
             "error_if_fulfilled",
             [Locals0 EXCEPT !.val = new_error(get_error(x))])
    /\ UNCHANGED <<core, lock, promise, future, invoked, handled, chained, mode, execs, QUEUE, running, events, spinlock>>

\* p.get_future()
Promise_get_future ==
  /\ promise.alive
  /\ Start("P", "Promise::get_future", NoArg, "get_future", Locals0)
  /\ UNCHANGED <<core, lock, promise, future, invoked, handled, chained, mode, execs, QUEUE, running, events, spinlock>>

\* drop(p)
Promise_drop ==
  /\ promise.alive
  /\ promise' = [promise EXCEPT !.alive = FALSE]
  /\ Start("P", "Promise::drop", NoArg, "promise_detach", Locals0)
  /\ UNCHANGED <<core, lock, future, invoked, handled, chained, mode, execs, QUEUE, running, events, spinlock>>

\* f.value()
Future_value ==
  /\ future.alive
  /\ Start("F", "Future::value", NoArg, "value", Locals0)
  /\ UNCHANGED <<core, lock, promise, future, invoked, handled, chained, mode, execs, QUEUE, running, events, spinlock>>

\* drop(f)
Future_drop ==
  /\ future.alive
  /\ future' = [future EXCEPT !.alive = FALSE]
  /\ StartAt("F", "Future::drop", NoArg, "detach_future",
             <<"future_detach_null">>, Locals0)
  /\ UNCHANGED <<core, lock, promise, invoked, handled, chained, mode, execs, QUEUE, running, events, spinlock>>

\* f.set_executor(x): Core::set_executor takes the executor lock first
Future_set_executor ==
  \E x \in execs :
    /\ future.alive
    /\ StartAt("F", "Future::set_executor", [NoArg EXCEPT !.exec = x],
               "lock_acquire", <<"set_executor">>,
               [Locals0 EXCEPT !.lk = "executor"])
    /\ UNCHANGED <<core, lock, promise, future, invoked, handled, chained, mode, execs, QUEUE, running, events, spinlock>>

(* --------------------------- specifications ---------------------------- *)

\* core.raise(err), called on the Core from the Future thread
Core_raise ==
  \E e \in Interrupts :
    /\ ~future.detached
    /\ StartAt("F", "Core::raise", [NoArg EXCEPT !.err = e], "lock_acquire",
               <<"raise">>, [Locals0 EXCEPT !.lk = "interrupt"])
    /\ UNCHANGED <<core, lock, promise, future, invoked, handled, chained, mode, execs, QUEUE, running, events, spinlock>>

\* core.set_interrupt_handler(h), called on the Core from the Promise thread
Core_set_interrupt_handler ==
  \E h \in Handlers :
    /\ promise.alive
    /\ StartAt("P", "Core::set_interrupt_handler",
               [NoArg EXCEPT !.handler = h], "lock_acquire",
               <<"has_result", "set_interrupt_handler">>,
               [Locals0 EXCEPT !.lk = "interrupt"])
    /\ UNCHANGED <<core, lock, promise, future, invoked, handled, chained, mode, execs, QUEUE, running, events, spinlock>>

\* core.get_interrupt_handler(), called from the Promise thread
Core_get_interrupt_handler ==
  /\ promise.alive
  /\ Start("P", "Core::get_interrupt_handler", NoArg,
           "get_interrupt_handler", Locals0)
  /\ UNCHANGED <<core, lock, promise, future, invoked, handled, chained, mode, execs, QUEUE, running, events, spinlock>>

\* what then / then_val build before they call set_callback: a Promise over
\* a fresh Core, the source's interrupt handler (if its flag is set) copied
\* to that Core, the Future retrieved from the Promise, the source's
\* executor bound to it
chain_new(kind, g) ==
  LET c0 == CoreNew
      c1 == IF core.interrupt_handler_set
            THEN set_interrupt_handler_nolock(c0, core.interrupt_handler)
            ELSE c0
  IN  [made |-> TRUE, kind |-> kind, g |-> g, g_calls |-> 0,
       core |-> [c1 EXCEPT !.executor = core.executor, !.priority = -1],
       promise |-> [PromiseNew EXCEPT !.core_ptr = "chained",
                                      !.retrieved = TRUE],
       future |-> FutureOver("chained")]

\* c = f.then_val(g): the chained Promise and Future, then
\* Core::set_callback of the closure on the source Core
Future_then_val ==
  \E g \in UserFns :
    /\ future.alive
    /\ future.core_ptr /= "null"
    /\ ~chained.made
    /\ chained' = chain_new("then_val", g)
    /\ Start("F", "Future::then_val", [NoArg EXCEPT !.cb = ThenValCallback],
             "set_callback", [Locals0 EXCEPT !.cb = ThenValCallback])
    /\ UNCHANGED <<core, lock, promise, future, invoked, handled, mode, execs, QUEUE, running, events, spinlock>>

\* c = f.then(g)
Future_then ==
  \E g \in UserFns :
    /\ future.alive
    /\ future.core_ptr /= "null"
    /\ ~chained.made
    /\ chained' = chain_new("then", g)
    /\ Start("F", "Future::then", [NoArg EXCEPT !.cb = ThenCallback],
             "set_callback", [Locals0 EXCEPT !.cb = ThenCallback])
    /\ UNCHANGED <<core, lock, promise, future, invoked, handled, mode, execs, QUEUE, running, events, spinlock>>

\* c.value() on the chained Future
Chained_value ==
  /\ chained.made
  /\ chained.future.alive
  /\ Start("F", "Chained::value", NoArg, "chained_value", Locals0)
  /\ UNCHANGED <<core, lock, promise, future, invoked, handled, chained, mode, execs, QUEUE, running, events, spinlock>>

Thread0 ==
  [pc |-> "idle", stack |-> <<>>, op |-> "none", arg |-> NoArg, n |-> 0,
   out |-> NoOut, pre |-> [core |-> CoreNew, promise |-> PromiseNew,
                           future |-> NoFuture, invoked |-> <<>>,
                           handled |-> <<>>, chained |-> NoChain],
   obs |-> NoObs, l |-> Locals0, held |-> {}, sb |-> <<>>,
   late |-> FALSE]

\* after Promise::new(), or after Future::new(t)
InitHandles ==
  \/ /\ core = CoreNew
     /\ promise = PromiseNew
     /\ future = NoFuture
  \/ \E x \in Tries :
       /\ core = CoreNewTry(x)
       /\ promise = NoPromise
       /\ future = FutureOver("core")

(* ---------------------- QueuedImmediateExecutor ------------------------ *)

(* The queue is thread-local: one thread, whose calls in progress are the  *)
(* frames of `running`. A task is known by the number of its submission;   *)
(* what a task does is call add any number of times and return.            *)

\* the closure `|| { /* placeholder */ }` that add parks at the front
placeholder == 0

\* VecDeque::is_empty
is_empty(q) == q = <<>>

\* a push_back that loses the element
push_back_lost(q, x) == q

\* a push_front that loses the element
push_front_lost(q, x) == q

\* VecDeque::push_back, push_front, pop_front (front, rest; None on empty)
push_back(q, x) == Append(q, x)
push_front(q, x) == <<x>> \o q
pop_front(q) ==
  IF q = <<>>
  THEN [some |-> FALSE, front |-> placeholder, rest |-> q]
  ELSE [some |-> TRUE, front |-> Head(q), rest |-> Tail(q)]

\* a call in progress: add(work) at pc with its local fnbox, or the body of
\* task `work`
AddFrame(work) ==
  [fn |-> "add", pc |-> "is_empty", work |-> work, fnbox |-> placeholder]
TaskFrame(work) ==
  [fn |-> "task", pc |-> "body", work |-> work, fnbox |-> placeholder]

Event(ev, id, by) == [ev |-> ev, id |-> id, by |-> by]

\* the tasks submitted so far
Submitted == Len(SelectSeq(events, LAMBDA e : e.ev = "submit"))

\* the innermost call in progress
Top == running[Len(running)]
PopFrame == SubSeq(running, 1, Len(running) - 1)
SetTop(f) == [running EXCEPT ![Len(running)] = f]

\* queued.add(work) called by the test, outside every task
queued_add ==
  /\ running = <<>>
  /\ Submitted < MaxTasks
  /\ running' = <<AddFrame(Submitted + 1)>>
  /\ events' = Append(events, Event("submit", Submitted + 1, placeholder))
  /\ UNCHANGED <<QUEUE, spinlock, corevars>>

\* queued.add(work) called from inside a task
task_add ==
  /\ running /= <<>>
  /\ Top.fn = "task"
  /\ Top.work /= placeholder
  /\ Submitted < MaxTasks
  /\ running' = Append(running, AddFrame(Submitted + 1))
  /\ events' = Append(events, Event("submit", Submitted + 1, Top.work))
  /\ UNCHANGED <<QUEUE, spinlock, corevars>>

\* add: `if (*queue).is_empty()`, and the push_back of either branch; the
\* else branch returns
add_is_empty ==
  /\ running /= <<>>
  /\ Top.fn = "add" /\ Top.pc = "is_empty"
  /\ QUEUE' = push_back(QUEUE, Top.work)
  /\ running' = IF is_empty(QUEUE)
                THEN SetTop([Top EXCEPT !.pc = "while"])
                ELSE PopFrame
  /\ UNCHANGED <<events, spinlock, corevars>>

\* add: `while !(*queue).is_empty()`
add_while ==
  /\ running /= <<>>
  /\ Top.fn = "add" /\ Top.pc = "while"
  /\ running' = IF ~is_empty(QUEUE)
                THEN SetTop([Top EXCEPT !.pc = "pop_front"])
                ELSE PopFrame
  /\ UNCHANGED <<QUEUE, events, spinlock, corevars>>

\* add: `let fnbox = (*queue).pop_front().unwrap()`
add_pop_front ==
  /\ running /= <<>>
  /\ Top.fn = "add" /\ Top.pc = "pop_front"
  /\ LET p == pop_front(QUEUE) IN
     /\ p.some
     /\ QUEUE' = p.rest
     /\ running' = SetTop([Top EXCEPT !.pc = "push_front",
                                      !.fnbox = p.front])
  /\ UNCHANGED <<events, spinlock, corevars>>

\* add: `(*queue).push_front(Box::new(|| { /* placeholder */ }))`
add_push_front ==
  /\ running /= <<>>
  /\ Top.fn = "add" /\ Top.pc = "push_front"
  /\ QUEUE' = push_front(QUEUE, placeholder)
  /\ running' = SetTop([Top EXCEPT !.pc = "call_box"])
  /\ UNCHANGED <<events, spinlock, corevars>>

\* add: `fnbox.call_box(())`: the task starts
add_call_box ==
  /\ running /= <<>>
  /\ Top.fn = "add" /\ Top.pc = "call_box"
  /\ running' = Append(SetTop([Top EXCEPT !.pc = "discard"]),
                       TaskFrame(Top.fnbox))
  /\ events' = Append(events, Event("start", Top.fnbox, placeholder))
  /\ UNCHANGED <<QUEUE, spinlock, corevars>>

\* the task returns
task_return ==
  /\ running /= <<>>
  /\ Top.fn = "task"
  /\ running' = PopFrame
  /\ events' = Append(events, Event("end", Top.work, placeholder))
  /\ UNCHANGED <<QUEUE, spinlock, corevars>>

\* add: `let _discarded_placeholder = (*queue).pop_front()`
add_discard ==
  /\ running /= <<>>
  /\ Top.fn = "add" /\ Top.pc = "discard"
  /\ QUEUE' = pop_front(QUEUE).rest
  /\ running' = SetTop([Top EXCEPT !.pc = "while"])
  /\ UNCHANGED <<events, spinlock, corevars>>

\* the calls of add on one thread, from the test and from inside tasks
NextQueue ==
  \/ queued_add
  \/ task_add
  \/ add_is_empty
  \/ add_while
  \/ add_pop_front
  \/ add_push_front
  \/ add_call_box
  \/ task_return
  \/ add_discard

(* ------------------- MicroSpinLock used directly ------------------------ *)

(* Two threads call try_lock, lock and unlock on one MicroSpinLock, as the *)
(* tests of microspinlock.rs do. Sleeper::wait only passes time, so a      *)
(* waiting thread is one that loads the lock again.                        *)

\* a thread that is in none of the three functions and holds nothing; op
\* is the function it called last, ret what its latest try_lock returned,
\* found and left the lock before and after that try_lock, waited whether
\* its latest lock() found the lock taken
LockUser0 ==
  [pc |-> "idle", op |-> "none", holds |-> FALSE, n |-> 0, ret |-> FALSE,
   found |-> FREE, left |-> FREE, waited |-> FALSE, panicked |-> FALSE]

\* MicroSpinLock::new
SpinLockNew == [lock |-> FREE, user |-> [t \in Threads |-> LockUser0]]

SetUser(t, u) == [spinlock EXCEPT !.user[t] = u]

\* MicroSpinLock::try_lock, called on its own: one compare_exchange
try_lock(t) ==
  /\ spinlock.user[t].pc = "idle"
  /\ spinlock.user[t].n < MaxLockOps
  /\ LET u == spinlock.user[t]
         c == cas(spinlock.lock, FREE, LOCKED)
     IN  spinlock' =
           [spinlock EXCEPT
              !.lock = c.left,
              !.user[t] = [u EXCEPT !.n = @ + 1,
                                    !.op = "try_lock",
                                    !.ret = c.found = FREE,
                                    !.found = spinlock.lock,
                                    !.left = c.left,
                                    !.holds = @ \/ c.found = FREE]]
  /\ UNCHANGED <<QUEUE, running, events, corevars>>

\* MicroSpinLock::lock entered by a thread that does not hold the lock
lock_enter(t) ==
  /\ spinlock.user[t].pc = "idle"
  /\ ~spinlock.user[t].holds
  /\ spinlock.user[t].n < MaxLockOps
  /\ spinlock' = SetUser(t, [spinlock.user[t] EXCEPT !.pc = "load",
                                                     !.op = "lock",
                                                     !.waited = FALSE,
                                                     !.n = @ + 1])
  /\ UNCHANGED <<QUEUE, running, events, corevars>>

\* lock: `while self.lock.load(..) != FREE { sleeper.wait() }`, the loop
\* before the first try_lock and the one after a failed try_lock
lock_load(t) ==
  /\ spinlock.user[t].pc = "load"
  /\ spinlock' = IF spinlock.lock /= FREE
                 THEN SetUser(t, [spinlock.user[t] EXCEPT !.waited = TRUE])
                 ELSE SetUser(t, [spinlock.user[t] EXCEPT !.pc = "try_lock"])
  /\ UNCHANGED <<QUEUE, running, events, corevars>>

\* lock: `while !self.try_lock()`
lock_try_lock(t) ==
  /\ spinlock.user[t].pc = "try_lock"
  /\ LET u == spinlock.user[t]
         c == cas(spinlock.lock, FREE, LOCKED)
     IN  spinlock' =
           [spinlock EXCEPT
              !.lock = c.left,
              !.user[t] = IF c.found = FREE
                          THEN [u EXCEPT !.pc = "debug_assert",
                                         !.holds = TRUE]
                          ELSE [u EXCEPT !.pc = "load", !.waited = TRUE]]
  /\ UNCHANGED <<QUEUE, running, events, corevars>>

\* lock: `debug_assert!(self.lock.load(..) == LOCKED)`, then the return
lock_debug_assert(t) ==
  /\ spinlock.user[t].pc = "debug_assert"
  /\ spinlock' = SetUser(t, [spinlock.user[t] EXCEPT
                               !.pc = "idle",
                               !.panicked = spinlock.lock /= LOCKED])
  /\ UNCHANGED <<QUEUE, running, events, corevars>>

\* MicroSpinLock::unlock called by the thread that holds the lock: the
\* assertion, then the store of FREE
spin_unlock(t) ==
  /\ spinlock.user[t].pc = "idle"
  /\ spinlock.user[t].holds
  /\ spinlock' =
       [spinlock EXCEPT
          !.lock = IF spinlock.lock = LOCKED THEN FREE ELSE @,
          !.user[t] = [@ EXCEPT !.holds = FALSE,
                                !.op = "unlock",
                                !.panicked = spinlock.lock /= LOCKED]]
  /\ UNCHANGED <<QUEUE, running, events, corevars>>

\* one step of a thread inside lock()
LockStep(t) == lock_load(t) \/ lock_try_lock(t) \/ lock_debug_assert(t)

NextLock ==
  \E t \in Threads :
    \/ try_lock(t)
    \/ lock_enter(t)
    \/ lock_load(t)
    \/ lock_try_lock(t)
    \/ lock_debug_assert(t)
    \/ spin_unlock(t)

\* nothing submitted to the executor, the MicroSpinLock free and unused
InitOthers ==
  /\ QUEUE = <<>>
  /\ running = <<>>
  /\ events = <<>>
  /\ spinlock = SpinLockNew

InitCommon ==
  /\ lock = LocksFree
  /\ invoked = <<>>
  /\ handled = <<>>
  /\ chained = NoChain
  /\ th = [t \in Threads |-> Thread0]
  /\ lastT = "P"
  /\ InitOthers

Init ==
  /\ InitHandles
  /\ InitCommon
  /\ mode = "seq"
  /\ execs = {NullExecutor, SingleExecutor}

\* the steps of the Core's own functions
CoreStep(t) ==
  \/ lock_acquire(t)
  \/ update_state(t)
  \/ update_state_check(t)
  \/ update_state_action(t)
  \/ update_state_store(t)
  \/ update_state_unlock(t)
  \/ set_result(t)
  \/ set_result_ret(t)
  \/ set_callback(t)
  \/ set_callback_ret(t)
  \/ return(t)
  \/ maybe_callback(t)
  \/ active_drain(t)
  \/ activate_ret(t)
  \/ maybe_callback_active(t)
  \/ update_state2_ret(t)
  \/ do_callback_read(t)
  \/ do_callback_attach(t)
  \/ do_callback_take(t)
  \/ do_callback_call(t)
  \/ detach_one(t)
  \/ activate(t)
  \/ deactivate(t)

\* the steps of the handles and of the functions only they reach
HandleStep(t) ==
  \/ detach_future(t)
  \/ detach_promise(t)
  \/ has_result(t)
  \/ has_result_assert(t)
  \/ error_if_fulfilled(t)
  \/ set_try(t)
  \/ get_future(t)
  \/ promise_detach(t)
  \/ promise_detach_null(t)
  \/ value(t)
  \/ get_try(t)
  \/ future_detach_null(t)
  \/ set_executor(t)

Next ==
  \/ Core_set_result
  \/ Core_set_callback
  \/ Core_activate
  \/ Core_deactivate
  \/ Promise_set_try
  \/ Promise_set_error
  \/ Promise_get_future
  \/ Promise_drop
  \/ Future_value
  \/ Future_drop
  \/ Future_set_executor
  \/ \E t \in Threads : CoreStep(t) \/ HandleStep(t)

\* the QueuedImmediateExecutor alone: the Core and its handles stay as
\* constructed
InitQueue ==
  /\ core = CoreNew
  /\ promise = PromiseNew
  /\ future = NoFuture
  /\ InitCommon
  /\ mode = "seq"
  /\ execs = {NullExecutor}

SpecQueue == InitQueue /\ [][NextQueue]_vars

\* the MicroSpinLock alone, every thread scheduled again and again and
\* every holder unlocking in the end
SpecLock ==
  /\ InitQueue
  /\ [][NextLock]_vars
  /\ \A t \in Threads : WF_vars(LockStep(t)) /\ WF_vars(spin_unlock(t))

Spec == Init /\ [][Next]_vars

\* the same operations with every kind of executor for callers to bind: the
\* null executor, one with a single priority, one with several
InitExec ==
  /\ InitHandles
  /\ InitCommon
  /\ mode = "seq"
  /\ execs = {NullExecutor, SingleExecutor, MultiExecutor}

SpecExec == InitExec /\ [][Next]_vars

\* the operations of Spec together with then, then_val and value() of the
\* chained Future
NextChain ==
  \/ Next
  \/ Future_then
  \/ Future_then_val
  \/ Chained_value
  \/ \E t \in Threads : chained_value(t)

SpecChain == Init /\ [][NextChain]_vars

\* then, then_val and value() of the chained Future with every kind of
\* executor for callers to bind
SpecChainExec == InitExec /\ [][NextChain]_vars

\* two threads on a fresh Core: set_result on the Promise thread,
\* set_callback, activate and deactivate on the Future thread
InitPar ==
  /\ core = CoreNew
  /\ promise = PromiseNew
  /\ future = NoFuture
  /\ InitCommon
  /\ mode = "par"
  /\ execs = {NullExecutor}

NextPar ==
  \/ Core_set_result
  \/ Core_set_callback
  \/ Core_activate
  \/ Core_deactivate
  \/ \E t \in Threads : CoreStep(t)

SpecPar == InitPar /\ [][NextPar]_vars

\* set_result on the Promise thread against set_callback, deactivate and
\* activate on the Future thread, on a Core that is fresh or has been
\* deactivated
InitAct ==
  /\ core \in {CoreNew, [CoreNew EXCEPT !.active = FALSE]}
  /\ promise = PromiseNew
  /\ future = NoFuture
  /\ InitCommon
  /\ mode = "par"
  /\ execs = {NullExecutor}

SpecAct == InitAct /\ [][NextPar]_vars

\* every operation that reads or moves the Core's state, interleaved on the
\* two threads: set_result, get_future and the Promise's detach on the
\* Promise thread; set_callback, activate, deactivate, raise, get_try and
\* the Future's detach on the Future thread. One value, one callback and one
\* interrupt are enough to tell the states apart.
NextAll ==
  \/ Core_set_result /\ th'["P"].arg.try = new_value(1)
  \/ Core_set_callback /\ th'["F"].arg.cb = "f1"
  \/ Core_activate
  \/ Core_deactivate
  \/ Core_raise /\ th'["F"].arg.err = "e1"
  \/ Promise_get_future
  \/ Promise_drop
  \/ Future_value
  \/ Future_drop
  \/ \E t \in Threads : CoreStep(t)
  \/ \E t \in Threads : detach_future(t) \/ future_detach_null(t)
  \/ \E t \in Threads : detach_promise(t) \/ promise_detach(t)
  \/ \E t \in Threads : promise_detach_null(t) \/ get_future(t)
  \/ \E t \in Threads : value(t) \/ get_try(t)
  \/ \E t \in Threads : has_result(t) \/ has_result_assert(t)
  \/ \E t \in Threads : raise(t) \/ raise_store(t) \/ raise_handler(t)
  \/ \E t \in Threads : interrupt_unlock(t)

SpecAll == InitPar /\ [][NextAll]_vars

\* the steps of set_result and set_callback on a Core with no executor
RetryStep(t) ==
  \/ lock_acquire(t)
  \/ update_state(t)
  \/ update_state_check(t)
  \/ update_state_action(t)
  \/ update_state_store(t)
  \/ update_state_unlock(t)
  \/ set_result(t)
  \/ set_result_ret(t)
  \/ set_callback(t)
  \/ set_callback_ret(t)
  \/ return(t)
  \/ maybe_callback(t)
  \/ maybe_callback_active(t)
  \/ update_state2_ret(t)
  \/ do_callback_read(t)
  \/ do_callback_attach(t)
  \/ do_callback_take(t)
  \/ do_callback_call(t)
  \/ detach_one(t)

NextRetry ==
  \/ Core_set_result
  \/ Core_set_callback
  \/ \E t \in Threads : RetryStep(t)

\* set_result on the Promise thread against set_callback on the Future
\* thread, each thread scheduled again and again while it is in a call
SpecRetry ==
  /\ InitPar
  /\ [][NextRetry]_vars
  /\ \A t \in Threads : WF_vars(RetryStep(t))

\* the steps of raise, set_interrupt_handler and get_interrupt_handler
InterruptStep(t) ==
  \/ lock_acquire(t)
  \/ raise(t)
  \/ raise_store(t)
  \/ raise_handler(t)
  \/ set_interrupt_handler(t)
  \/ interrupt_unlock(t)
  \/ get_interrupt_handler(t)
  \/ get_interrupt_handler_read(t)
  \/ has_result(t)

\* the interrupt operations, one after another, on a Core that the callers
\* also complete, deactivate and activate (the use of the unit tests
\* raise_set_handler_after and raise_set_handler_before)
InitInt ==
  /\ core = CoreNew
  /\ promise = PromiseNew
  /\ future = NoFuture
  /\ InitCommon
  /\ mode = "seq"
  /\ execs = {NullExecutor}

NextInt ==
  \/ Core_raise
  \/ Core_set_interrupt_handler
  \/ Core_get_interrupt_handler
  \/ Core_set_result
  \/ Core_set_callback
  \/ Core_activate
  \/ Core_deactivate
  \/ \E t \in Threads : CoreStep(t)
  \/ \E t \in Threads : InterruptStep(t)
  \/ \E t \in Threads : has_result_assert(t)

SpecInt == InitInt /\ [][NextInt]_vars

\* raise on the Future thread interleaved with set_interrupt_handler and
\* get_interrupt_handler on the Promise thread, on a Core with no result
InitIntPar ==
  /\ core = CoreNew
  /\ promise = PromiseNew
  /\ future = NoFuture
  /\ InitCommon
  /\ mode = "par"
  /\ execs = {NullExecutor}

NextIntPar ==
  \/ Core_raise
  \/ Core_set_interrupt_handler
  \/ Core_get_interrupt_handler
  \/ \E t \in Threads : InterruptStep(t)

SpecIntPar == InitIntPar /\ [][NextIntPar]_vars

(* ------------------------------- claims -------------------------------- *)

\* no operation is running
Quiet == \A t \in Threads : th[t].pc \in {"idle", "dead"}

\* the latest operation started
L == th[lastT]

\* the two threads have started nothing but one set_result (Promise thread)
\* and one set_callback (Future thread)
OneOfEach ==
  /\ th["P"].n <= 1
  /\ th["F"].n <= 1
  /\ th["P"].op \in {"none", "Core::set_result"}
  /\ th["F"].op \in {"none", "Core::set_callback"}

BothReturned ==
  /\ th["P"].n = 1
  /\ th["F"].n = 1
  /\ Quiet

\* C1: on a fresh active Core with no executor, under every interleaving of
\* one set_result(v) and one set_callback(f) on two threads, f is never
\* invoked with anything but v, never twice, and has been invoked exactly
\* once when both calls have returned; neither call panics.
C1_OneSetResultOneSetCallback ==
  OneOfEach =>
    LET call == [cb |-> th["F"].arg.cb, arg |-> th["P"].arg.try] IN
    /\ invoked \in {<<>>, <<call>>}
    /\ invoked /= <<>> => th["P"].n = 1 /\ th["F"].n = 1
    /\ BothReturned =>
         /\ invoked = <<call>>
         /\ th["P"].out = OkOut
         /\ th["F"].out = OkOut
         /\ core.state = "Done"

\* the two calls overlap: the callback has been invoked while both threads
\* are still inside their calls
C1_Witness ==
  /\ OneOfEach
  /\ \A t \in Threads : th[t].pc \notin {"idle", "dead"}
  /\ invoked = <<[cb |-> th["F"].arg.cb, arg |-> th["P"].arg.try]>>

\* C2: on an active Core with no executor the callback is dispatched inside
\* the second of set_result / set_callback and not before: set_callback on
\* OnlyResult returns with the state Done and the callback invoked once with
\* the stored result; set_callback on Start returns with nothing invoked
\* and the set_result that follows returns with the callback invoked.
C2_DispatchInSecondCall ==
  (Quiet /\ L.pre.core.active /\ L.pre.core.executor = NullExecutor) =>
    /\ (L.op = "Core::set_callback" /\ L.pre.core.state = "OnlyResult"
        /\ L.pre.core.result /= None) =>
         /\ L.pre.invoked = <<>>
         /\ invoked = <<[cb |-> L.arg.cb, arg |-> L.pre.core.result]>>
         /\ core.state = "Done"
         /\ L.out = OkOut
    /\ (L.op = "Core::set_callback" /\ L.pre.core.state = "Start") =>
         /\ invoked = <<>>
         /\ core.state = "OnlyCallback"
         /\ L.out = OkOut
    /\ (L.op \in {"Core::set_result", "Promise::set_try"}
        /\ L.pre.core.state = "OnlyCallback") =>
         /\ L.pre.invoked = <<>>
         /\ invoked = <<[cb |-> L.pre.core.callback, arg |-> L.arg.try]>>
         /\ core.state = "Done"
         /\ L.out = OkOut
    /\ (L.op \in {"Core::set_result", "Promise::set_try"}
        /\ L.pre.core.state = "Start") =>
         /\ invoked = <<>>
         /\ core.state = "OnlyResult"

\* set_callback has just returned on a Core whose result came first
C2_Witness ==
  /\ Quiet
  /\ L.op = "Core::set_callback"
  /\ L.pre.core.state = "OnlyResult"
  /\ L.pre.core.active
  /\ L.pre.core.executor = NullExecutor
  /\ L.pre.promise.alive
  /\ L.pre.invoked = <<>>
  /\ Len(invoked) = 1

\* the set_result-like operations of the callers
SetResultOps == {"Core::set_result", "Promise::set_try", "Promise::set_error"}

\* C3: a Promise dropped with no result ever set (detach_promise entered in
\* Start or OnlyCallback) puts the error "Broken Promise" through set_result
\* without a panic: from OnlyCallback the installed callback is invoked once
\* with that error (on an active Core; a deactivated one is left Armed with
\* the error stored), from Start the Core is left OnlyResult holding the
\* error, and Future::value on that Core returns the error.
C3_BrokenPromise ==
  /\ (Quiet /\ L.op = "Promise::drop" /\ L.obs.entered
      /\ ~has_result_of(L.obs.core.state)) =>
       /\ L.out = OkOut
       /\ L.obs.injected
       /\ (L.obs.core.state = "OnlyCallback" /\ L.obs.core.active) =>
            /\ core.state = "Done"
            /\ L.pre.invoked = <<>>
            /\ invoked = <<[cb |-> L.obs.core.callback, arg |-> BrokenPromise]>>
       /\ (L.obs.core.state = "OnlyCallback" /\ ~L.obs.core.active) =>
            /\ core.state = "Armed"
            /\ core.result = BrokenPromise
            /\ invoked = <<>>
       /\ L.obs.core.state = "Start" =>
            /\ core.state = "OnlyResult"
            /\ core.result = BrokenPromise
            /\ invoked = <<>>
  /\ (Quiet /\ L.op = "Future::value" /\ L.pre.core.state = "OnlyResult"
      /\ L.pre.core.result = BrokenPromise) =>
       L.out = ErrOut("Broken Promise")
  /\ Len(invoked) <= 1

\* the Promise was dropped with a callback installed and no result
C3_Witness ==
  /\ Quiet
  /\ L.op = "Promise::drop"
  /\ L.obs.entered
  /\ L.obs.core.state = "OnlyCallback"
  /\ L.pre.promise.retrieved
  /\ \E f \in Callbacks : invoked = <<[cb |-> f, arg |-> BrokenPromise]>>

\* C4: detach_promise entered on a Core whose result was set (state
\* OnlyResult, Armed or Done) does not call set_result and does not panic;
\* it only decrements the attach count.
C4_NoInjectionAfterResult ==
  \A t \in Threads :
    (th[t].obs.entered /\ has_result_of(th[t].obs.core.state)) =>
      /\ ~th[t].obs.injected
      /\ th[t].out.kind /= "panic"
      /\ (th[t].pc = "idle" /\ lastT = t) =>
           core = [th[t].obs.core EXCEPT !.attached = @ - 1]

\* C5: with the Core deactivated before it is Armed, the second of
\* set_result / set_callback returns with the state Armed and nothing
\* invoked; activate on that Core returns with the state Done and the
\* callback invoked once with the result; activate after that invokes
\* nothing more.
C5_DeactivateDefersDispatch ==
  /\ (Quiet /\ ~L.pre.core.active /\ L.out = OkOut
      /\ \/ L.op = "Core::set_callback" /\ L.pre.core.state = "OnlyResult"
         \/ L.op \in SetResultOps /\ L.pre.core.state = "OnlyCallback") =>
       /\ core.state = "Armed"
       /\ invoked = <<>>
  /\ (Quiet /\ L.op = "Core::activate" /\ L.pre.core.state = "Armed"
      /\ L.pre.core.result /= None) =>
       /\ core.state = "Done"
       /\ L.pre.invoked = <<>>
       /\ invoked = <<[cb |-> L.pre.core.callback,
                       arg |-> L.pre.core.result]>>
  /\ (Quiet /\ L.op = "Core::activate" /\ L.pre.core.state /= "Armed") =>
       /\ invoked = L.pre.invoked
       /\ core.state = L.pre.core.state
  /\ Len(invoked) <= 1

\* activate has just dispatched a callback that deactivate had held back
C5_Witness ==
  /\ Quiet
  /\ L.op = "Core::activate"
  /\ L.pre.core.state = "Armed"
  /\ ~L.pre.core.active
  /\ L.pre.invoked = <<>>
  /\ core.state = "Done"
  /\ Len(invoked) = 1

\* C6: the Future's drop sets the active flag before detach_future
\* decrements the attach count, so an Armed, deactivated Core is dispatched
\* during the drop; once the future side has detached, no operation leaves
\* the Core Armed.
C6_DropActivates ==
  /\ \A t \in Threads :
       (th[t].op = "Future::drop" /\ th[t].pc = "detach_one"
        /\ Head(th[t].stack) = "future_detach_null") =>
         /\ core.active
         /\ core.state /= "Armed"
         /\ core.attached = th[t].pre.core.attached
  /\ (Quiet /\ L.op = "Future::drop") =>
       /\ L.out = OkOut
       /\ core.active
       /\ core.attached = L.pre.core.attached - 1
       /\ L.pre.core.state = "Armed" =>
            /\ core.state = "Done"
            /\ L.pre.core.result /= None =>
                 invoked = <<[cb |-> L.pre.core.callback,
                              arg |-> L.pre.core.result]>>
  /\ (Quiet /\ future.detached) => core.state /= "Armed"

\* the Future was dropped on an Armed, deactivated Core
C6_Witness ==
  /\ Quiet
  /\ L.op = "Future::drop"
  /\ L.pre.core.state = "Armed"
  /\ ~L.pre.core.active
  /\ L.pre.invoked = <<>>
  /\ core.state = "Done"
  /\ Len(invoked) = 1

\* C7: set_result on a Core that has accepted a result, and set_callback on
\* a Core that has accepted a callback, panic with the logic error and
\* leave the state, both slots and every other field as they were, with no
\* callback invoked.
C7_SecondCallIsLogicError ==
  /\ (Quiet /\ L.op = "Core::set_result"
      /\ L.pre.core.state \in {"OnlyResult", "Armed", "Done"}) =>
       /\ L.out = PanicOut("logic error: set_result called twice")
       /\ core = L.pre.core
       /\ invoked = L.pre.invoked
  /\ (Quiet /\ L.op = "Core::set_callback"
      /\ L.pre.core.state \in {"OnlyCallback", "Armed", "Done"}) =>
       /\ L.out = PanicOut("logic error: set_callback called twice")
       /\ core = L.pre.core
       /\ invoked = L.pre.invoked

\* a second set_result has panicked on a Core that holds a result
C7_Witness ==
  /\ Quiet
  /\ L.op = "Core::set_result"
  /\ L.pre.core.state = "OnlyResult"
  /\ L.pre.core.result /= None
  /\ L.pre.core.result /= L.arg.try
  /\ L.out.kind = "panic"

\* C8: Promise::set_try and set_error on a Core whose result was set (state
\* OnlyResult, Armed or Done) return the error "Promise already satisfied"
\* and leave the Core unchanged; they do not panic.
C8_AlreadySatisfied ==
  (Quiet /\ L.op \in {"Promise::set_try", "Promise::set_error"}
   /\ has_result_of(L.pre.core.state)) =>
    /\ L.out = ErrOut("Promise already satisfied")
    /\ core = L.pre.core
    /\ invoked = L.pre.invoked

\* C9: the first Promise::get_future returns a Future over the Promise's
\* Core and sets retrieved; every later call returns the error "Promise
\* already retrieved" and changes neither the Promise nor the Future nor
\* the Core; no call touches the Core.
C9_GetFutureOnce ==
  (Quiet /\ L.op = "Promise::get_future") =>
    /\ core = L.pre.core
    /\ invoked = L.pre.invoked
    /\ IF L.pre.promise.retrieved
       THEN /\ L.out = ErrOut("Promise already retrieved")
            /\ promise = L.pre.promise
            /\ future = L.pre.future
       ELSE /\ L.out = OkOut
            /\ promise = [L.pre.promise EXCEPT !.retrieved = TRUE]
            /\ future = [alive |-> TRUE, core_ptr |-> L.pre.promise.core_ptr,
                         detached |-> FALSE]
            /\ future.core_ptr = "core"

\* a second get_future has returned its error
C9_Witness ==
  /\ Quiet
  /\ L.op = "Promise::get_future"
  /\ L.pre.promise.retrieved
  /\ L.pre.future.alive
  /\ L.out.kind = "err"

\* C10: Future::value on a Core with no result (state Start or
\* OnlyCallback) returns the error "Future not ready" and leaves the Core
\* unchanged; it does not panic.
C10_NotReadyIsAnError ==
  (Quiet /\ L.op = "Future::value" /\ ~has_result_of(L.pre.core.state)) =>
    /\ L.out = ErrOut("Future not ready")
    /\ core = L.pre.core


\* C11: set_interrupt_handler(h) on a Core with no result whose interrupt is
\* recorded calls h once, with the recorded interrupt, before it returns and
\* stores nothing (the Core, its handler slot and its flag are as before);
\* get_interrupt_handler on a Core whose flag is false returns None and
\* changes nothing; once an interrupt is recorded with the flag false, the
\* flag is false in every later state.
C11_HandlerAfterInterrupt ==
  /\ (Quiet /\ L.op = "Core::set_interrupt_handler"
      /\ ~has_result_of(L.pre.core.state)
      /\ L.pre.core.interrupt /= NoInterrupt) =>
       /\ L.out = OkOut
       /\ handled = Append(L.pre.handled, [handler |-> L.arg.handler,
                                           err |-> L.pre.core.interrupt])
       /\ core = L.pre.core
       /\ lock = LocksFree
  /\ (Quiet /\ L.op = "Core::get_interrupt_handler"
      /\ ~L.pre.core.interrupt_handler_set) =>
       /\ L.out = HandlerOut(NoHandler)
       /\ core = L.pre.core
       /\ handled = L.pre.handled
  /\ (L.pre.core.interrupt /= NoInterrupt
      /\ ~L.pre.core.interrupt_handler_set) =>
       /\ ~core.interrupt_handler_set
       /\ core.interrupt_handler = NoHandler

\* a handler registered after raise has been called and not stored
C11_Witness ==
  /\ Quiet
  /\ L.op = "Core::set_interrupt_handler"
  /\ L.pre.core.state = "Start"
  /\ L.pre.core.interrupt /= NoInterrupt
  /\ L.pre.handled = <<>>
  /\ Len(handled) = 1
  /\ ~core.interrupt_handler_set

\* C12: on a Core with no result and no interrupt recorded, raise records
\* its error and calls the stored handler (if one is stored) once with it;
\* raise on a Core whose interrupt is recorded changes nothing and calls
\* nothing; a recorded interrupt is never changed or cleared; and
\* get_interrupt_handler on a Core whose handler is stored returns that
\* handler and changes nothing.
C12_InterruptSetOnce ==
  /\ (Quiet /\ L.op = "Core::raise" /\ ~has_result_of(L.pre.core.state)
      /\ L.pre.core.interrupt = NoInterrupt) =>
       /\ L.out = OkOut
       /\ core = [L.pre.core EXCEPT !.interrupt = L.arg.err]
       /\ handled = IF L.pre.core.interrupt_handler /= NoHandler
                    THEN Append(L.pre.handled,
                                [handler |-> L.pre.core.interrupt_handler,
                                 err |-> L.arg.err])
                    ELSE L.pre.handled
       /\ lock = LocksFree
  /\ (Quiet /\ L.op = "Core::raise"
      /\ L.pre.core.interrupt /= NoInterrupt) =>
       /\ L.out = OkOut
       /\ core = L.pre.core
       /\ handled = L.pre.handled
  /\ L.pre.core.interrupt /= NoInterrupt =>
       core.interrupt = L.pre.core.interrupt
  /\ (Quiet /\ L.op = "Core::get_interrupt_handler"
      /\ L.pre.core.interrupt_handler_set) =>
       /\ L.out = HandlerOut(L.pre.core.interrupt_handler)
       /\ L.out /= HandlerOut(NoHandler)
       /\ core = L.pre.core
       /\ handled = L.pre.handled

\* a second raise, with another error, has returned on a Core whose handler
\* the first raise called
C12_Witness ==
  /\ Quiet
  /\ L.op = "Core::raise"
  /\ L.pre.core.interrupt /= NoInterrupt
  /\ L.pre.core.interrupt /= L.arg.err
  /\ L.pre.core.interrupt_handler /= NoHandler
  /\ Len(handled) = 1

\* C13: raise on a Core whose result was set (state OnlyResult, Armed or
\* Done) returns normally, records no interrupt, calls no handler and
\* leaves the interrupt lock free.
C13_RaiseAfterResult ==
  (Quiet /\ L.op = "Core::raise" /\ has_result_of(L.pre.core.state)) =>
    /\ L.out = OkOut
    /\ core = L.pre.core
    /\ handled = L.pre.handled
    /\ lock["interrupt"] = FREE

\* the two threads have started nothing but one raise (Future thread) and
\* one set_interrupt_handler (Promise thread)
OneRaiseOneHandler ==
  /\ th["P"].n <= 1
  /\ th["F"].n <= 1
  /\ th["P"].op \in {"none", "Core::set_interrupt_handler"}
  /\ th["F"].op \in {"none", "Core::raise"}

\* C14: under every interleaving of one raise(e) and one
\* set_interrupt_handler(h) on a Core with no result, h is never called
\* twice nor with anything but e, and has been called exactly once when
\* both calls have returned; neither call panics and the lock is left free.
C14_HandlerOnceUnderRace ==
  OneRaiseOneHandler =>
    LET call == [handler |-> th["P"].arg.handler, err |-> th["F"].arg.err] IN
    /\ handled \in {<<>>, <<call>>}
    /\ (th["P"].n = 1 /\ th["F"].n = 1 /\ Quiet) =>
         /\ handled = <<call>>
         /\ th["P"].out = OkOut
         /\ th["F"].out = OkOut
         /\ core.interrupt = th["F"].arg.err
         /\ lock = LocksFree

\* raise holds the interrupt lock, its interrupt recorded, while
\* set_interrupt_handler waits for the lock
C14_Witness ==
  /\ OneRaiseOneHandler
  /\ th["F"].pc = "interrupt_unlock"
  /\ core.interrupt /= NoInterrupt
  /\ th["P"].pc = "lock_acquire"
  /\ th["P"].l.lkpc = "load"
  /\ handled = <<>>

\* an operation is between do_callback's fetch_add and the detach_one of its
\* scope guard
InDispatch(t) ==
  \/ th[t].pc \in {"do_callback_take", "do_callback_call"}
  \/ th[t].pc = "detach_one" /\ Head(th[t].stack) = "return"

\* C15 as stated: the attach count is 0, 1 or 2 in every state, and no
\* operation raises it above the value it had when the operation started.
C15_AttachInZeroToTwo ==
  /\ core.attached \in {0, 1, 2}
  /\ core.attached <= L.pre.core.attached

\* C15, amended: the attach count is one of 0, 1, 2, 3; it exceeds the value
\* it had when the running operation started only after that operation's
\* do_callback has added one, and then by exactly one; with the null or a
\* single-priority executor the excess lasts only from do_callback's
\* fetch_add to its scope guard's detach_one, so that no operation returns
\* with the count above the value it started with.
C15_AttachBounded ==
  /\ core.attached \in {0, 1, 2, 3}
  /\ core.attached > L.pre.core.attached =>
       /\ core.attached = L.pre.core.attached + 1
       /\ L.pre.core.state /= "Done"
       /\ core.state = "Done"
       /\ \/ InDispatch(lastT)
          \/ do_callback_branch(L.pre.core.executor) = "skip"
  /\ (Quiet /\ do_callback_branch(L.pre.core.executor) = "call") =>
       core.attached <= L.pre.core.attached

\* the callback is running on a Core whose two handles are attached: the
\* count is 3
C15_Witness ==
  /\ th[lastT].pc = "do_callback_call"
  /\ L.pre.core.attached = 2
  /\ core.attached = 3

\* every handle of the Core has been dropped
AllDropped == ~promise.alive /\ ~future.alive

\* C16: once every handle has been dropped and the drops have ended, the
\* attach count is 0; it is 0 only when every handle has been dropped and
\* no dispatch is in progress; and it never goes below 0 (detach_one never
\* runs on a count of 0).
C16_AttachReachesZero ==
  /\ core.attached >= 0
  /\ (Quiet /\ AllDropped) => core.attached = 0
  /\ core.attached = 0 =>
       /\ AllDropped
       /\ \A t \in Threads : ~InDispatch(t)

\* the latest operation moved the Core from Armed (or earlier) to Done
Dispatched == L.pre.core.state /= "Done" /\ core.state = "Done"

\* C17: the Core calls the callback itself only when the executor it read
\* is null; with a non-null executor of one priority the callback has not
\* been called by the Core when the dispatching operation returns (it is
\* the executor's to run).
C17_DirectCallOnlyWhenNull ==
  /\ \A t \in Threads :
       th[t].pc = "do_callback_call" => th[t].l.exec = NullExecutor
  /\ (Quiet /\ Dispatched /\ L.pre.core.executor = SingleExecutor) =>
       invoked = L.pre.invoked

\* C18: a dispatch with an executor of more than one priority, on a Core
\* whose result slot is full, invokes the callback exactly once with the
\* stored result.
C18_MultiPriorityDispatch ==
  (Quiet /\ Dispatched /\ get_num_priorities(L.pre.core.executor) > 1
   /\ L.op = "Core::set_callback" /\ L.pre.core.result /= None) =>
    invoked = Append(L.pre.invoked,
                     [cb |-> L.arg.cb, arg |-> L.pre.core.result])

\* the calls of the closures of then / then_val so far
ChainCalls ==
  SelectSeq(invoked, LAMBDA i : i.cb \in {ThenCallback, ThenValCallback})

\* the Try the chained Future completes with when the closure was called
\* with a: the same error, or the user function's outcome
ChainOutcome(a) ==
  IF a.contains = "ERROR"
  THEN new_error(a.err)
  ELSE new_value(IF chained.g = "inc" THEN a.val + 1 ELSE a.val * 3)

\* the chained Core was completed with t: it holds t when the operation
\* that ran the closure returns, and t or nothing (value() empties the
\* slot) afterwards
ChainCompletedWith(t) ==
  /\ chained.core.state = "OnlyResult"
  /\ chained.core.result \in {t, None}
  /\ (Quiet /\ L.pre.invoked = <<>>) => chained.core.result = t

\* what the closure of then / then_val does when the Core calls it: before
\* the call, g has not been called and the chained Core is untouched, or,
\* the closure having been dropped uncalled, holds the broken-promise
\* error; once
\* it was called with an error, g has not been called and the chained Future
\* is completed with that error; once it was called with a value, g has been
\* called exactly once and the chained Future is completed with g's outcome;
\* the first value() of the chained Future returns that outcome.
ThenForwardsWhenCalled ==
  chained.made =>
    /\ Len(ChainCalls) <= 1
    /\ ChainCalls = <<>> =>
         /\ chained.g_calls = 0
         /\ IF chained.promise.alive
            THEN chained.core.state = "Start" /\ chained.core.result = None
            ELSE /\ chained.core.state = "OnlyResult"
                 /\ chained.core.result \in {BrokenPromise, None}
    /\ ChainCalls /= <<>> =>
         LET a == ChainCalls[1].arg IN
         /\ ChainCalls[1].cb = chained.kind
         /\ chained.g_calls = IF a.contains = "ERROR" THEN 0 ELSE 1
         /\ ChainCompletedWith(ChainOutcome(a))
         /\ (Quiet /\ L.op = "Chained::value"
             /\ L.pre.chained.core.result /= None) =>
              /\ L.pre.chained.core.result = ChainOutcome(a)
              /\ L.out = IF a.contains = "ERROR"
                         THEN ErrOut(a.err)
                         ELSE [kind |-> "ok", msg |-> "",
                               val |-> ChainOutcome(a).val]

\* the source completed with an error, and value() of the Future chained by
\* then has returned that error without the user function being called
ThenForwardsError ==
  /\ Quiet
  /\ chained.made
  /\ chained.kind = "then"
  /\ L.op = "Chained::value"
  /\ ChainCalls /= <<>>
  /\ ChainCalls[1].arg = new_error("boom")
  /\ L.out = ErrOut("boom")
  /\ chained.g_calls = 0

\* the Try the source Core completed with: the one handed to the closure,
\* or the one still in the result slot
SourceTry == IF ChainCalls /= <<>> THEN ChainCalls[1].arg ELSE core.result

\* the closure of then / then_val is the callback of the source Core, and
\* the source Core has dispatched a result
SourceCompleted ==
  /\ chained.made
  /\ core.state = "Done"
  /\ SourceTry /= None
  /\ ChainCalls /= <<>> \/ core.callback \in {ThenCallback, ThenValCallback}

\* C19: for then and then_val with user function g: when the source Future
\* has completed with an error, g was not invoked and the chained Future is
\* completed with that same error; when it has completed with a value, g was
\* invoked exactly once and the chained Future is completed with g's
\* outcome.
C19_ThenOnCompletion ==
  (Quiet /\ SourceCompleted) =>
    /\ chained.g_calls = IF SourceTry.contains = "ERROR" THEN 0 ELSE 1
    /\ ChainCompletedWith(ChainOutcome(SourceTry))

\* C20: for c = f.then_val(g) over the Future of a Promise: then_val on a
\* Core that holds Value(v) (fulfilled first) returns with c ready and
\* holding g(v); set_try(Value(v)) on a Core that holds the closure of
\* then_val (callback first) returns with c ready and holding g(v); and
\* the first value() of c then returns Ok(g(v)).
C20_ThenValBothOrders ==
  LET g(v) == IF chained.g = "inc" THEN v + 1 ELSE v * 3
      Ready(v) == /\ chained.core.state = "OnlyResult"
                  /\ chained.core.result = new_value(g(v))
  IN
  /\ (Quiet /\ L.op = "Future::then_val" /\ L.pre.core.state = "OnlyResult"
      /\ L.pre.core.active /\ L.pre.core.result.contains = "VALUE"
      /\ do_callback_branch(L.pre.core.executor) = "call") =>
       /\ L.out = OkOut
       /\ Ready(L.pre.core.result.val)
       /\ core.state = "Done"
  /\ (Quiet /\ L.op \in {"Promise::set_try", "Core::set_result"}
      /\ L.pre.core.state = "OnlyCallback" /\ L.pre.core.active
      /\ L.pre.core.callback = ThenValCallback
      /\ L.arg.try.contains = "VALUE"
      /\ do_callback_branch(L.pre.core.executor) = "call") =>
       /\ L.out = OkOut
       /\ Ready(L.arg.try.val)
       /\ core.state = "Done"
  /\ (Quiet /\ L.op = "Chained::value" /\ chained.kind = "then_val"
      /\ L.pre.chained.core.state = "OnlyResult"
      /\ L.pre.chained.core.result.contains = "VALUE") =>
       /\ invoked = <<[cb |-> ThenValCallback,
                       arg |-> invoked[1].arg]>>
       /\ invoked[1].arg.contains = "VALUE"
       /\ L.out = [kind |-> "ok", msg |-> "", val |-> g(invoked[1].arg.val)]

\* callback first: then_val was installed on the Promise's Future before
\* p.set_try(Value(v)), and value() of the chained Future has returned Ok
C20_Witness ==
  /\ Quiet
  /\ L.op = "Chained::value"
  /\ L.out.kind = "ok"
  /\ chained.kind = "then_val"
  /\ th["P"].op = "Promise::set_try"
  /\ th["P"].pre.core.state = "OnlyCallback"
  /\ th["P"].pre.promise.retrieved

\* the ids of the events of one kind, in the order they happened
EventIds(ev) ==
  LET es == SelectSeq(events, LAMBDA e : e.ev = ev)
  IN  [i \in 1..Len(es) |-> es[i].id]

\* the position in `events` of the event ev of task id, 0 if none
EventAt(ev, id) ==
  IF \E i \in 1..Len(events) : events[i].ev = ev /\ events[i].id = id
  THEN CHOOSE i \in 1..Len(events) :
         events[i].ev = ev /\ events[i].id = id
  ELSE 0

\* the bodies of tasks in progress
TaskFrames == SelectSeq(running, LAMBDA f : f.fn = "task")

\* C21: on one thread, a task submitted by add from inside a running task
\* has not started before the submitting task has ended, no two tasks are
\* ever in progress at once, and the tasks start in the order of their
\* submission, whatever task submitted them.
C21_NestedTasksQueuedInOrder ==
  /\ Len(TaskFrames) <= 1
  /\ \A i \in 1..Len(events) :
       (events[i].ev = "submit" /\ events[i].by /= placeholder
        /\ EventAt("start", events[i].id) /= 0) =>
         /\ EventAt("end", events[i].by) /= 0
         /\ EventAt("end", events[i].by) < EventAt("start", events[i].id)
  /\ LET started == EventIds("start") IN
     \A k \in 1..Len(started) : started[k] = EventIds("submit")[k]

\* a task submitted from inside a task that was itself submitted from inside
\* a task has started, and a sibling submitted before it has ended
C21_Witness ==
  \E i, j \in 1..Len(events) :
    /\ events[i].ev = "submit" /\ events[i].by /= placeholder
    /\ events[j].ev = "submit" /\ events[j].by = events[i].id
    /\ EventAt("start", events[j].id) /= 0
    /\ \E k \in 1..Len(events) :
         /\ events[k].ev = "submit" /\ events[k].by = events[i].by
         /\ events[k].id /= events[i].id

\* the call of add made outside every task has returned
OutermostReturned == running = <<>> /\ events /= <<>>

\* C22: when the add called with an empty queue returns, every task
\* submitted so far has started exactly once and ended exactly once and the
\* queue is empty again; no task ever starts twice; an add called from
\* inside a task finds the queue non-empty and never reaches the loop that
\* executes tasks.
C22_DrainRunsEverythingOnce ==
  /\ OutermostReturned =>
       /\ QUEUE = <<>>
       /\ \A id \in 1..Submitted :
            /\ Len(SelectSeq(EventIds("start"), LAMBDA x : x = id)) = 1
            /\ Len(SelectSeq(EventIds("end"), LAMBDA x : x = id)) = 1
       /\ Len(EventIds("start")) = Submitted
  /\ \A id \in 1..Submitted :
       Len(SelectSeq(EventIds("start"), LAMBDA x : x = id)) <= 1
  /\ \A k \in 2..Len(running) :
       running[k].fn = "add" => running[k].pc = "is_empty"
  /\ (running = <<>>) => QUEUE = <<>>

\* the outermost add has returned after a drain in which a task submitted
\* two tasks and one of those submitted another
C22_Witness ==
  /\ OutermostReturned
  /\ Submitted = MaxTasks
  /\ \E i, j \in 1..Len(events) :
       /\ i /= j
       /\ events[i].ev = "submit" /\ events[j].ev = "submit"
       /\ events[i].by /= placeholder
       /\ events[j].by = events[i].by
  /\ \E i \in 1..Len(events) :
       events[i].ev = "submit" /\ events[i].by > 1

\* the threads that acquired the MicroSpinLock and have not unlocked it
Holders == {t \in Threads : spinlock.user[t].holds}

\* thread t is inside lock()
InLock(t) == spinlock.user[t].pc /= "idle"

MutualExclusion ==
  /\ Cardinality(Holders) <= 1
  /\ Holders /= {} => spinlock.lock = LOCKED
  /\ \A t \in Threads :
       LET u == spinlock.user[t] IN
       /\ ~u.panicked
       /\ u.op = "try_lock" =>
            /\ u.ret <=> u.found = FREE
            /\ u.ret => u.left = LOCKED /\ u.holds
            /\ ~u.ret => u.left = u.found
       /\ u.pc = "debug_assert" => u.holds
       /\ (u.op = "lock" /\ u.pc = "idle") => u.holds

\* C23: at most one thread holds the MicroSpinLock at any time, and the
\* lock is LOCKED while one does; try_lock returns true exactly when it
\* found the lock free, and then the caller holds it, and it leaves a taken
\* lock as it was when it returns false; lock() returns only to a caller
\* that holds the lock, and, every holder unlocking in the end, every call
\* of lock() returns.
C23_MicroSpinLock ==
  /\ []MutualExclusion
  /\ \A t \in Threads : InLock(t) ~> (~InLock(t) /\ spinlock.user[t].holds)

\* a thread has returned from a lock() that found the lock taken, and the
\* other thread's latest try_lock has returned false
C23_Witness ==
  \E t, u \in Threads :
    /\ t /= u
    /\ spinlock.user[t].op = "lock"
    /\ spinlock.user[t].pc = "idle"
    /\ spinlock.user[t].waited
    /\ spinlock.user[t].holds
    /\ spinlock.user[u].op = "try_lock"
    /\ ~spinlock.user[u].ret

\* the edges of the Core's state machine
Edges ==
  {<<"Start", "OnlyResult">>, <<"Start", "OnlyCallback">>,
   <<"OnlyResult", "Armed">>, <<"OnlyCallback", "Armed">>,
   <<"Armed", "Done">>}

\* C24: every step of every operation (set_result, set_callback, activate,
\* deactivate, get_try, raise, the detach operations, interleaved on two
\* threads) leaves the Core's state as it is or moves it along one of the
\* five edges; the edges have no cycle, so no state is revisited and Done
\* is never left.
C24_StateMovesAlongEdges ==
  [][core.state' = core.state \/ <<core.state, core.state'>> \in Edges]_vars

\* the Core has reached Done with the Promise dropped on one thread and
\* raise called on the other
C24_Witness ==
  /\ Quiet
  /\ core.state = "Done"
  /\ th["P"].op = "Promise::drop"
  /\ th["F"].op = "Core::raise"

\* C25: in every state, a Core in OnlyResult, Armed or Done has a non-empty
\* result slot, and no operation has failed the assertion of has_result.
C25_ResultPresentWhenReady ==
  /\ has_result_of(core.state) => core.result /= None
  /\ \A t \in Threads :
       th[t].out /= PanicOut("assertion failed: (*self.result.get()).is_some()")

\* C26: once the Core is in Done and the operation that dispatched has
\* returned (no operation is running), the result slot is empty and the
\* callback slot holds the no-op placeholder.
C26_SlotsEmptyAfterDispatch ==
  (core.state = "Done" /\ Quiet) =>
    /\ core.result = None
    /\ core.callback = NoopCallback

\* C27: an operation on the Core itself that dispatched (on any executor)
\* returns with the attach count it started with, the increment of
\* do_callback undone by one detach_one; and while the callback is being
\* called the attach count is at least 1.
C27_IncrementMatchedByDetach ==
  /\ (Quiet /\ Dispatched /\ L.out.kind /= "panic"
      /\ L.op \in {"Core::set_result", "Core::set_callback",
                   "Core::activate"}) =>
       core.attached = L.pre.core.attached
  /\ \A t \in Threads :
       th[t].pc = "do_callback_call" => core.attached >= 1

\* the user callback is being called by thread t
InCallback(t) == th[t].pc = "do_callback_call"

Drained == \A t \in Threads : th[t].sb = <<>>

\* C29: no dispatch is lost to the race between activation and arming:
\* whenever no thread is inside a Core operation, the Core is not in state
\* Armed with the active flag true
C29_NoLostDispatch ==
  (Quiet /\ Drained) => ~(core.state = "Armed" /\ core.active)

\* the same with activate's store taking effect before its load of the
\* state: then one of the two maybe_callback calls sees both stores
C29_NoLostDispatchInOrder ==
  (Quiet /\ Drained /\ \A t \in Threads : ~th[t].late) =>
    ~(core.state = "Armed" /\ core.active)

\* C30: whenever the Core goes Armed -> Done with a null or single-priority
\* executor, the installed callback is invoked, once, with the result that
\* was stored: the dispatch never finds the result slot empty, also not when
\* get_try took the result of the ready Core before set_callback
C30_DispatchFindsResult ==
  (Quiet /\ Dispatched /\ do_callback_branch(L.pre.core.executor) = "call") =>
    /\ Len(invoked) = Len(L.pre.invoked) + 1
    /\ invoked[Len(invoked)].arg /= None
    /\ L.op = "Core::set_callback" =>
         invoked[Len(invoked)] = [cb |-> L.arg.cb, arg |-> L.pre.core.result]

\* the same for a Core whose result slot was full when the operation began,
\* or that received its result in the operation
C30_DispatchOfFullSlot ==
  (Quiet /\ Dispatched /\ do_callback_branch(L.pre.core.executor) = "call"
   /\ (L.pre.core.state \in {"OnlyResult", "Armed"} =>
         L.pre.core.result /= None)) =>
    /\ Len(invoked) = Len(L.pre.invoked) + 1
    /\ invoked[Len(invoked)].arg /= None

\* thread t is inside a call
InCall(t) == th[t].pc \notin {"idle", "dead"}

\* no retry loop has seen update_state fail twice
RetryBounded == OneOfEach => \A t \in Threads : th[t].l.misses <= 1

\* C31: with one set_result and one set_callback running concurrently, each
\* call terminates (it returns, without a panic) and its retry loop suffers
\* at most one failed update_state attempt, that is at most two passes
C31_RetryAtMostOnce ==
  /\ []RetryBounded
  /\ \A t \in Threads :
       (OneOfEach /\ InCall(t)) ~>
         (~OneOfEach \/ (th[t].pc = "idle" /\ th[t].out = OkOut))

\* set_result saw Start, lost the race against set_callback, and has moved
\* the Core from OnlyCallback to Armed in its second pass
C31_Witness ==
  /\ OneOfEach
  /\ th["P"].pc = "set_result_ret"
  /\ th["P"].l.misses = 1
  /\ th["P"].l.usret
  /\ core.state = "Armed"

=============================================================================
